---- MODULE Spec2Model ----
(***************************************************************************)
(* A model of json17 (src/json17/json17.h): the tagged-union Value         *)
(* basic_json<Traits> under its three storage strategies (json_traits =    *)
(* Unique, json_shared_traits = Shared, json_inplace_traits = Inline), the *)
(* serializer (_dump...) and the recursive-descent parser (_parse..., _load) *)
(*                                                                         *)
(* Composite payloads (string, array, object) live in heap cells; a Value  *)
(* holds the address of its payload (0 = a null smart pointer).  A cell    *)
(* carries its owner count rc: std::unique_ptr keeps it at 1, the          *)
(* std::shared_ptr count can grow through get_shared_*, and the inline     *)
(* strategy's cell is the storage embedded in the Value itself.            *)
(***************************************************************************)
EXTENDS Integers, Sequences, FiniteSets, Bags, TLC

\* the Value machine: the storage strategy, the payload heap, the root Values,
\* the smart-pointer handles callers hold, the last call's outcome
VARIABLES strategy, heap, root, hnd, last, steps

\* a dump / load round: the document, the options, the text, the loaded result
VARIABLES doc, options, text, back, pc

machine == <<strategy, heap, root, hnd, last, steps>>

round == <<doc, options, text, back, pc>>

vars == <<strategy, heap, root, hnd, last, steps, doc, options, text, back, pc>>

(* ------------------------------ bounds -------------------------------- *)

MaxAddr == 6

MaxSteps == 2

MaxIdx == 1

MaxHandles == 1

(* ----------------------------- universes ------------------------------ *)

Strategies == {"Unique", "Shared", "Inline"}

Roots == {"a", "b"}

Addr == 1 .. MaxAddr

Handles == 1 .. MaxHandles

Composite == {"string", "array", "object"}

\* the object keys the machine's callers use: "x" and "y"
Keys == {<<120>>, <<121>>}

\* the string literal the machine's callers construct from: "s"
Lit == <<115>>

(* ------------------------------ binary64 ------------------------------- *)

\* A natural number of any size is the sequence of its digits in base 2^10,
\* lowest first, without leading zero digits; a finite double is
\* (-1)^ng * n * 2^sc with n such a number, odd or zero.

\* the base of the digits of a number, ten binary digits to one, and the base
\* of the decimal expansion
Base == 2 ^ 10

Kilo == 10 ^ 3

\* the function f on 1 .. n as the sequence of its values
Listed(f) == f \o <<>>

\* a without its leading zero digits
Trim(a) ==
    SubSeq(a, 1, CHOOSE n \in 0 .. Len(a) :
                    (n = 0 \/ a[n] # 0) /\ \A j \in (n + 1) .. Len(a) : a[j] = 0)

\* the digits of an int k >= 0 in base B
RECURSIVE Of(_, _)
Of(k, B) == IF k = 0 THEN <<>> ELSE <<k % B>> \o Of(k \div B, B)

BigOf(k) == Of(k, Base)

\* the int of a number below 2^31
RECURSIVE SmallOf(_)
SmallOf(a) == IF a = <<>> THEN 0 ELSE Head(a) + Base * SmallOf(Tail(a))

\* digit i of a, 0 above its last
At(a, i) == IF i <= Len(a) THEN a[i] ELSE 0

Longer(a, b) == IF Len(a) < Len(b) THEN Len(b) ELSE Len(a)

\* the sum of the naturals f[i]: the size of the bag of f[i] + 1 copies of
\* each i, less one copy of each
Sum(f) == BagCardinality([i \in DOMAIN f |-> f[i] + 1]) - Cardinality(DOMAIN f)

\* the digits in base B of the number whose places hold s[i] < 2 * B - 1:
\* place i takes a carry when a place below it overflows and every place
\* between the two passes the carry on
Carried(s, B) ==
    Trim(Listed([i \in 1 .. (Len(s) + 1) |->
                   (At(s, i)
                      + (IF \E j \in 1 .. (i - 1) :
                              s[j] >= B /\ \A m \in (j + 1) .. (i - 1) : s[m] >= B - 1
                         THEN 1 ELSE 0)) % B]))

\* a + b in base B
Add(a, b, B) == Carried(Listed([i \in 1 .. Longer(a, b) |-> At(a, i) + At(b, i)]), B)

\* a + b
BigAdd(a, b) == Add(a, b, Base)

\* the digits of the number whose places hold t[i] > -Base: place i lends
\* when a place below it falls short and no place between the two has
\* something to give
Borrowed(t) ==
    Trim(Listed([i \in 1 .. Len(t) |->
                   (t[i]
                      - (IF \E j \in 1 .. (i - 1) :
                              t[j] < 0 /\ \A m \in (j + 1) .. (i - 1) : t[m] <= 0
                         THEN 1 ELSE 0)) % Base]))

\* a - b for a >= b
BigSub(a, b) == Borrowed(Listed([i \in 1 .. Len(a) |-> a[i] - At(b, i)]))

\* a < b
BigLess(a, b) ==
    IF Len(a) # Len(b) THEN Len(a) < Len(b)
    ELSE \E i \in 1 .. Len(a) : a[i] < b[i] /\ \A j \in (i + 1) .. Len(a) : a[j] = b[j]

\* the number whose places hold col[k] < B^3, in base B: each col[k] is
\* three digits
Columns(col, B) ==
    Add(Add(Listed([k \in DOMAIN col |-> col[k] % B]),
            <<0>> \o [k \in DOMAIN col |-> (col[k] \div B) % B], B),
        <<0, 0>> \o [k \in DOMAIN col |-> col[k] \div (B * B)], B)

\* a * b in base B, for fewer than B digits each: place k holds the sum of
\* the products of the digits that meet there
Mul(a, b, B) ==
    IF a = <<>> \/ b = <<>> THEN <<>>
    ELSE Columns(Listed([k \in 1 .. (Len(a) + Len(b) - 1) |->
                           Sum([i \in (IF k > Len(b) THEN k + 1 - Len(b) ELSE 1)
                                        .. (IF k > Len(a) THEN Len(a) ELSE k) |->
                                  a[i] * b[k + 1 - i]])]), B)

\* a * b
BigMul(a, b) == Mul(a, b, Base)

\* h * h * y in base B
Squared(h, y, B) == Mul(Mul(h, h, B), y, B)

\* x^k in base B for a digit x, by squaring
RECURSIVE Power(_, _, _)
Power(x, k, B) ==
    IF k = 0 THEN <<1>>
    ELSE Squared(Power(x, k \div 2, B), IF k % 2 = 1 THEN <<x>> ELSE <<1>>, B)

\* 5^k
Pow5(k) == Power(5, k, Base)

\* a * 2^k
Shl(a, k) ==
    IF a = <<>> THEN <<>>
    ELSE [i \in 1 .. (k \div 10) |-> 0]
           \o Trim(Listed([i \in 1 .. (Len(a) + 1) |->
                             ((At(a, i) * (2 ^ (k % 10))) % Base)
                               + (IF i = 1 THEN 0
                                  ELSE (a[i - 1] * (2 ^ (k % 10))) \div Base)]))

\* floor(a / 2^k)
Shr(a, k) ==
    Trim(Listed([i \in 1 .. (Len(a) - (k \div 10)) |->
                   (a[i + (k \div 10)] \div (2 ^ (k % 10)))
                     + ((At(a, i + (k \div 10) + 1) % (2 ^ (k % 10)))
                          * (2 ^ (10 - (k % 10))))]))

RECURSIVE Bits(_)
Bits(x) == IF x = 0 THEN 0 ELSE 1 + Bits(x \div 2)

\* the number of binary digits of a
BitLen(a) == IF a = <<>> THEN 0 ELSE 10 * (Len(a) - 1) + Bits(a[Len(a)])

\* binary digit i of a, the lowest being digit 0
Bit(a, i) == (At(a, (i \div 10) + 1) \div (2 ^ (i % 10))) % 2

\* the k lowest binary digits of a are all 0
LowZero(a, k) ==
    /\ \A j \in 1 .. (k \div 10) : At(a, j) = 0
    /\ At(a, (k \div 10) + 1) % (2 ^ (k % 10)) = 0

\* the number of 0 digits below the lowest 1 of a # 0
LowZeros(a) == CHOOSE k \in 0 .. (10 * Len(a)) : Bit(a, k) = 1 /\ LowZero(a, k)

RECURSIVE LongDiv(_, _, _)

\* the step of the long division that found the digit c for s
DivStep(s, c, tab, n) == <<c>> \o LongDiv(BigSub(s, tab[c + 1]), tab, n - 1)

\* the step of the long division on s = 32 * r: its digit is the greatest c
\* with c * d <= s
DivDigit(s, tab, n) ==
    DivStep(s, CHOOSE c \in 0 .. 31 :
                  ~BigLess(s, tab[c + 1]) /\ (c = 31 \/ BigLess(s, tab[c + 2])), tab, n)

\* long division by d of r < d, five binary digits at a time: the n digits
\* in base 32 of floor(r * 32^n / d), highest first, and after them 1 when
\* something is left, 0 when not; tab[c + 1] is c * d
LongDiv(r, tab, n) ==
    IF n = 0 THEN <<IF r = <<>> THEN 0 ELSE 1>> ELSE DivDigit(Shl(r, 5), tab, n)

\* the number of the 14 digits ds found by the long division, times two,
\* plus the 15th
Quotient(ds) ==
    BigAdd(Shl(Trim(Listed([j \in 1 .. 7 |-> ds[15 - 2 * j] * 32 + ds[16 - 2 * j]])), 1),
           IF ds[15] = 1 THEN <<1>> ELSE <<>>)

\* r / d for r < d as a number of 2^-71: 70 digits of the quotient and one
\* more that says whether the division left a remainder
Ratio(r, d) ==
    Quotient(LongDiv(r, Listed([c \in 1 .. 32 |-> Mul(d, <<c - 1>>, Base)]), 14))

\* a double: its class nc (finite, NaN, +Infinity, -Infinity) and, when
\* finite, (-1)^ng * n * 2^sc.  0.0 and -0.0 are one value.  One more class,
\* "freed", stands for the doubles read from memory that free() wrote to: a
\* positive number below 2^-1026 whose digits are left open
Zero == [nc |-> "fin", ng |-> FALSE, n |-> <<>>, sc |-> 0]

NaN == [Zero EXCEPT !.nc = "nan"]

Inf(ng) == [Zero EXCEPT !.nc = IF ng THEN "ninf" ELSE "pinf"]

\* the double that is exactly (-1)^ng * m * 2^x, m # 0 of at most 53 digits
Exact(ng, m, x) ==
    [nc |-> "fin", ng |-> ng, n |-> Shr(m, LowZeros(m)), sc |-> x + LowZeros(m)]

\* the double (-1)^ng * r * 2^q for r of at most 53 digits: 0 for r = 0,
\* an infinity from 2^1024 on
Finite(ng, r, q) ==
    IF r = <<>> THEN Zero
    ELSE IF BitLen(r) + q > 1024 THEN Inf(ng)
    ELSE Exact(ng, r, q)

\* m / 2^s for s > 0 as the nearest whole number, a tie to the even one
Nearest(m, s) ==
    IF Bit(m, s - 1) = 1 /\ (~LowZero(m, s - 1) \/ Bit(m, s) = 1)
    THEN BigAdd(Shr(m, s), <<1>>)
    ELSE Shr(m, s)

\* the last place a double near m * 2^x keeps: 2^q, 53 digits below the
\* first or 2^-1074
LastPlace(m, x) == IF x + BitLen(m) - 53 > -1074 THEN x + BitLen(m) - 53 ELSE -1074

\* (-1)^ng * m * 2^x for m # 0 as the nearest double whose last place is 2^q
RoundedTo(ng, m, x, q) ==
    Finite(ng, IF q <= x THEN m ELSE Nearest(m, q - x), IF q <= x THEN x ELSE q)

\* (-1)^ng * m * 2^x rounded to the nearest double, ties to the even one
Rounded(ng, m, x) == IF m = <<>> THEN Zero ELSE RoundedTo(ng, m, x, LastPlace(m, x))

\* the conversion of an int to double
OfInt(k) == IF k = 0 THEN Zero ELSE Exact(k < 0, BigOf(IF k < 0 THEN -k ELSE k), 0)

Negative(a) == a.nc = "ninf" \/ (a.nc = "fin" /\ a.ng)

\* a * b
Times(a, b) ==
    IF a.nc = "nan" \/ b.nc = "nan" THEN NaN
    ELSE IF a.nc # "fin" \/ b.nc # "fin"
    THEN (IF a = Zero \/ b = Zero THEN NaN ELSE Inf(Negative(a) # Negative(b)))
    ELSE Rounded(a.ng # b.ng, BigMul(a.n, b.n), a.sc + b.sc)

\* the lower of two ints
Lower(x, y) == IF x < y THEN x ELSE y

\* a + b for a >= 0 and b >= 0
Plus(a, b) ==
    IF a.nc = "nan" \/ b.nc = "nan" THEN NaN
    ELSE IF a.nc # "fin" \/ b.nc # "fin" THEN Inf(FALSE)
    ELSE Rounded(FALSE, BigAdd(Shl(a.n, a.sc - Lower(a.sc, b.sc)),
                               Shl(b.n, b.sc - Lower(a.sc, b.sc))), Lower(a.sc, b.sc))

\* a / 10 for a finite a
TenthOf(a) ==
    IF a.n = <<>> THEN Zero
    ELSE Rounded(a.ng, Ratio(a.n, Shl(<<5>>, BitLen(a.n))), a.sc + BitLen(a.n) - 72)

\* -a
Minus(a) ==
    IF a.nc = "pinf" THEN Inf(TRUE) ELSE IF a.nc = "ninf" THEN Inf(FALSE)
    ELSE IF a.nc = "nan" \/ a.n = <<>> THEN a
    ELSE [a EXCEPT !.ng = ~a.ng]

\* the double above a finite a > 0 whose first binary digit is 2^top
AboveAt(a, top) ==
    Rounded(FALSE, BigAdd(Shl(a.n, a.sc - (top - 52)), <<1>>), top - 52)

\* the double above a finite a > 0
Above(a) == AboveAt(a, a.sc + BitLen(a.n) - 1)

\* what pow(10, k) returns where a is the double nearest to 10^k: a, but the
\* double above it for k = 23 and k = 210
Pow10Of(k, a) == IF k \in {23, 210} THEN Above(a) ELSE a

\* the double nearest to 10^k, -323 <= k <= 308, with p = 5^|k|: p * 2^k, or
\* for k < 0 the quotient 2^(len - 1) / p of 2^(k - len + 1), len the number
\* of binary digits of p
Nearest10(k, p) ==
    Rounded(FALSE,
            IF k >= 0 THEN p ELSE Ratio(Shl(<<1>>, BitLen(p) - 1), p),
            IF k >= 0 THEN k ELSE k - BitLen(p) - 70)

\* pow(10, k) of the C library: the double nearest to 10^k, but the one above
\* it for k = 23 and k = 210; +Infinity from 10^309 on, 0 from 10^-324 down
Pow10(k) ==
    IF k > 308 THEN Inf(FALSE)
    ELSE IF k < -323 THEN Zero
    ELSE Pow10Of(k, Nearest10(k, Pow5(IF k >= 0 THEN k ELSE -k)))

(* --------------------------- values and cells -------------------------- *)

\* json_type and the alternative held by variant_t.  nc, ng, n and sc are the
\* double of a Number; p is the payload address
NullV == [t |-> "null", b |-> FALSE, nc |-> "fin", ng |-> FALSE, n |-> <<>>, sc |-> 0,
          p |-> 0]

BoolV(x) == [NullV EXCEPT !.t = "boolean", !.b = x]

NumV(x) == [NullV EXCEPT !.t = "number", !.nc = x.nc, !.ng = x.ng, !.n = x.n, !.sc = x.sc]

CompV(t, p) == [NullV EXCEPT !.t = t, !.p = p]

FreeCell == [k |-> "free", rc |-> 0, s |-> <<>>, e |-> <<>>, m |-> <<>>]

\* what make_smart<T>() creates: an empty payload with one owner
EmptyCell(k) == [FreeCell EXCEPT !.k = k, !.rc = 1]

\* the payload-free tree of a Value: z marks a null payload handle
NullT == [t |-> "null", b |-> FALSE, nc |-> "fin", ng |-> FALSE, n |-> <<>>, sc |-> 0,
          z |-> FALSE, s |-> <<>>, e |-> <<>>, m |-> <<>>]

(* --------------------------- byte strings ------------------------------ *)

\* std::string operator< : lexicographic over unsigned bytes
RECURSIVE LexLess(_, _)
LexLess(x, y) ==
    IF y = <<>> THEN FALSE
    ELSE IF x = <<>> THEN TRUE
    ELSE IF Head(x) # Head(y) THEN Head(x) < Head(y)
    ELSE LexLess(Tail(x), Tail(y))

\* position of key in the sorted member sequence, 0 when absent (map::find)
FindKey(m, key) ==
    IF \E i \in 1 .. Len(m) : m[i].k = key
    THEN CHOOSE i \in 1 .. Len(m) : m[i].k = key
    ELSE 0

\* an insert that would replace the entry of a key already present
MapAssign(m, key, v) ==
    LET rest == SelectSeq(m, LAMBDA x : x.k # key)
        n == Cardinality({i \in 1 .. Len(rest) : LexLess(rest[i].k, key)})
    IN SubSeq(rest, 1, n) \o <<[k |-> key, v |-> v]>> \o SubSeq(rest, n + 1, Len(rest))

\* std::map::emplace: no effect when the key is present, else sorted insert
MapEmplace(m, key, v) ==
    IF FindKey(m, key) # 0 THEN m
    ELSE LET lo == {i \in 1 .. Len(m) : LexLess(m[i].k, key)}
             n == Cardinality(lo)
         IN SubSeq(m, 1, n) \o <<[k |-> key, v |-> v]>> \o SubSeq(m, n + 1, Len(m))

\* texts put together with a separator between them
RECURSIVE Join(_, _)
Join(parts, sep) ==
    IF parts = <<>> THEN <<>>
    ELSE IF Len(parts) = 1 THEN parts[1]
    ELSE parts[1] \o sep \o Join(Tail(parts), sep)

(* ------------------------------- heap ---------------------------------- *)

FreeAddrs(h) == {a \in Addr : h[a].k = "free"}

NewAddr(h) == CHOOSE a \in FreeAddrs(h) : \A c \in FreeAddrs(h) : a <= c

\* the payload addresses a cell's own Values hold
ChildPtrs(c) ==
    [i \in 1 .. Len(c.e) |-> c.e[i].p] \o [i \in 1 .. Len(c.m) |-> c.m[i].v.p]

\* smart pointer destructor / reset: drop one owner of each address; the last
\* owner destroys the payload and with it the Values stored inside
RECURSIVE Release(_, _)
Release(h, ps) ==
    IF ps = <<>> THEN h
    ELSE LET q == Head(ps)
         IN IF q = 0 THEN Release(h, Tail(ps))
            ELSE IF h[q].rc > 1
                 THEN Release([h EXCEPT ![q].rc = @ - 1], Tail(ps))
                 ELSE Release([h EXCEPT ![q] = FreeCell], ChildPtrs(h[q]) \o Tail(ps))

\* the tree of a Value stored below the payloads up: a handle to one of them
\* closes a cycle (a payload that a move stored inside itself) and is where
\* the tree is cut
RECURSIVE Under(_, _, _)
Under(h, v, up) ==
    IF v.t \notin Composite
    THEN [NullT EXCEPT !.t = v.t, !.b = v.b, !.nc = v.nc, !.ng = v.ng, !.n = v.n,
                       !.sc = v.sc]
    ELSE IF v.p = 0 THEN [NullT EXCEPT !.t = v.t, !.z = TRUE]
    ELSE IF v.p \in up THEN [NullT EXCEPT !.t = "cycle"]
    ELSE LET c == h[v.p]
         IN [NullT EXCEPT !.t = v.t, !.s = c.s,
                          !.e = [i \in 1 .. Len(c.e) |-> Under(h, c.e[i], up \cup {v.p})],
                          !.m = [i \in 1 .. Len(c.m) |->
                                   [k |-> c.m[i].k,
                                    v |-> Under(h, c.m[i].v, up \cup {v.p})]]]

\* the tree a Value denotes
Abs(h, v) == Under(h, v, {})

\* number of payloads a tree needs
RECURSIVE Cells(_)
RECURSIVE CellsSeq(_)
Cells(t) ==
    IF t.t \notin Composite \/ t.z THEN 0
    ELSE 1 + CellsSeq(t.e) + CellsSeq([i \in 1 .. Len(t.m) |-> t.m[i].v])

CellsSeq(ts) == IF ts = <<>> THEN 0 ELSE Cells(Head(ts)) + CellsSeq(Tail(ts))

\* a tree with a null payload handle somewhere in it
RECURSIVE HasNullPayload(_)
HasNullPayload(t) ==
    /\ t.t \in Composite
    /\ \/ t.z
       \/ \E i \in 1 .. Len(t.e) : HasNullPayload(t.e[i])
       \/ \E i \in 1 .. Len(t.m) : HasNullPayload(t.m[i].v)

\* a tree that contains itself: walking it does not end
RECURSIVE Endless(_)
Endless(t) ==
    \/ t.t = "cycle"
    \/ \E i \in 1 .. Len(t.e) : Endless(t.e[i])
    \/ \E i \in 1 .. Len(t.m) : Endless(t.m[i].v)

\* build a tree in the heap, one make_smart per composite: [h, v]
RECURSIVE Build(_, _)
RECURSIVE BuildElems(_, _, _)
RECURSIVE BuildMembers(_, _, _)
Build(h, t) ==
    IF t.t \notin Composite
    THEN [h |-> h, v |-> [NullV EXCEPT !.t = t.t, !.b = t.b, !.nc = t.nc, !.ng = t.ng,
                                       !.n = t.n, !.sc = t.sc]]
    ELSE IF t.z THEN [h |-> h, v |-> CompV(t.t, 0)]
    ELSE LET c == NewAddr(h)
             h1 == [h EXCEPT ![c] = [EmptyCell(t.t) EXCEPT !.s = t.s]]
             h2 == BuildElems(h1, c, t.e)
             h3 == BuildMembers(h2, c, t.m)
         IN [h |-> h3, v |-> CompV(t.t, c)]

BuildElems(h, c, ts) ==
    IF ts = <<>> THEN h
    ELSE LET r == Build(h, Head(ts))
         IN BuildElems([r.h EXCEPT ![c].e = Append(@, r.v)], c, Tail(ts))

BuildMembers(h, c, ms) ==
    IF ms = <<>> THEN h
    ELSE LET r == Build(h, Head(ms).v)
         IN BuildMembers([r.h EXCEPT ![c].m = Append(@, [k |-> Head(ms).k, v |-> r.v])],
                         c, Tail(ms))

(* ------------------------------- slots --------------------------------- *)

\* a place holding a Value (what a basic_json& refers to): a root variable,
\* element i of the array in cell c, or member i of the object in cell c
RootSlot(r) == [r |-> r, c |-> 0, i |-> 0]

CellSlot(c, i) == [r |-> "", c |-> c, i |-> i]

NoSlot == [r |-> "", c |-> 0, i |-> 0]

Slots(h) ==
    {RootSlot(r) : r \in Roots}
      \cup {CellSlot(c, i) : c \in Addr, i \in 1 .. (MaxIdx + 1)}

IsSlot(h, s) ==
    \/ s.c = 0 /\ s.r \in Roots
    \/ s.c # 0 /\ s.i \in 1 .. (Len(h[s.c].e) + Len(h[s.c].m))

LiveSlots(h) == {s \in Slots(h) : IsSlot(h, s)}

Read(h, rt, s) ==
    IF s.c = 0 THEN rt[s.r]
    ELSE IF h[s.c].k = "array" THEN h[s.c].e[s.i] ELSE h[s.c].m[s.i].v

\* store v in slot s: [h, rt]
Write(h, rt, s, v) ==
    IF s.c = 0 THEN [h |-> h, rt |-> [rt EXCEPT ![s.r] = v]]
    ELSE IF h[s.c].k = "array"
         THEN [h |-> [h EXCEPT ![s.c].e[s.i] = v], rt |-> rt]
         ELSE [h |-> [h EXCEPT ![s.c].m[s.i].v = v], rt |-> rt]

\* cells reachable from a Value through payload handles, those in up left out
RECURSIVE Below(_, _, _)
Below(h, v, up) ==
    IF v.t \notin Composite \/ v.p = 0 \/ v.p \in up THEN {}
    ELSE {v.p}
           \cup UNION {Below(h, h[v.p].e[i], up \cup {v.p}) : i \in 1 .. Len(h[v.p].e)}
           \cup UNION {Below(h, h[v.p].m[i].v, up \cup {v.p}) : i \in 1 .. Len(h[v.p].m)}

\* cells reachable from a Value through payload handles
Reach(h, v) == Below(h, v, {})

(* ------------------------------- trees --------------------------------- *)

StringT(str) == [NullT EXCEPT !.t = "string", !.s = str]

ArrayT(es) == [NullT EXCEPT !.t = "array", !.e = es]

ObjectT(ms) == [NullT EXCEPT !.t = "object", !.m = ms]

EmptyT(k) == [NullT EXCEPT !.t = k]

BoolT(x) == [NullT EXCEPT !.t = "boolean", !.b = x]

\* the Number holding the double x
NumOf(x) == [NullT EXCEPT !.t = "number", !.nc = x.nc, !.ng = x.ng, !.n = x.n, !.sc = x.sc]

\* the Number holding the decimal k / 10^sc, for a k that 5^sc divides: these
\* are the decimals of at most sc places that a double holds exactly
NumT(k, sc) ==
    IF k = 0 THEN NumOf(Zero)
    ELSE NumOf(Exact(k < 0, BigOf((IF k < 0 THEN -k ELSE k) \div (5 ^ sc)), -sc))

\* NaN ("nan"), +Infinity ("pinf"), -Infinity ("ninf")
NonFiniteT(c) == [NullT EXCEPT !.t = "number", !.nc = c]

(* ----------------------------- serializer ------------------------------ *)

INT_MAX == 2147483647

SP_N == 64

RECURSIVE Digits(_)
Digits(n) == IF n < 10 THEN <<48 + n>> ELSE Digits(n \div 10) \o <<48 + (n % 10)>>

\* sprintf "%d"
FormatD(n) == IF n < 0 THEN <<45>> \o Digits(-n) ELSE Digits(n)

RECURSIVE ZeroPad(_, _)
ZeroPad(ds, w) == IF Len(ds) >= w THEN ds ELSE ZeroPad(<<48>> \o ds, w)

\* a number given in base 2^10, in base 10^3
RECURSIVE Decimal(_)
Decimal(a) ==
    IF a = <<>> THEN <<>>
    ELSE Add(Mul(Decimal(Tail(a)), Of(Base, Kilo), Kilo), Of(Head(a), Kilo), Kilo)

\* the decimal digits of a number d # 0 given in base 10^3: those of its top
\* digit, then three for each digit below
DecDigits(d) ==
    Digits(d[Len(d)])
      \o [i \in 1 .. 3 * (Len(d) - 1) |->
            48 + ((d[Len(d) - 1 - ((i - 1) \div 3)] \div (10 ^ (2 - ((i - 1) % 3)))) % 10)]

\* a decimal digit string plus one in its last place
RECURSIVE Bumped(_)
Bumped(ds) ==
    IF ds = <<>> THEN <<49>>
    ELSE IF ds[Len(ds)] # 57 THEN [ds EXCEPT ![Len(ds)] = @ + 1]
    ELSE Bumped(SubSeq(ds, 1, Len(ds) - 1)) \o <<48>>

\* the digits ds of an exact value cut to 17 significant ones, to nearest and
\* ties to even; one digit more when the rounding carried out of the first
Cut17(ds) ==
    IF Len(ds) <= 17 THEN ds
    ELSE LET keep == SubSeq(ds, 1, 17)
             up == \/ ds[18] > 53
                   \/ /\ ds[18] = 53
                      /\ \/ \E i \in 19 .. Len(ds) : ds[i] # 48
                         \/ ds[17] % 2 = 1
         IN IF up THEN Bumped(keep) ELSE keep

\* a digit string without its trailing zeros, the first digit kept
RECURSIVE Stripped(_)
Stripped(ds) ==
    IF Len(ds) > 1 /\ ds[Len(ds)] = 48 THEN Stripped(SubSeq(ds, 1, Len(ds) - 1)) ELSE ds

\* the exponent of "%e" style: sign and at least two digits
Exponent(x) ==
    <<101, IF x < 0 THEN 45 ELSE 43>> \o ZeroPad(Digits(IF x < 0 THEN -x ELSE x), 2)

\* "%.17g" of the digits sig (no trailing zeros) with decimal exponent x:
\* "%e" style for x < -4 or x >= 17, "%f" style otherwise, no trailing zeros
\* and no point without a digit after it
Styled(sig, x) ==
    IF x < -4 \/ x >= 17
    THEN <<sig[1]>> \o (IF Len(sig) > 1 THEN <<46>> \o Tail(sig) ELSE <<>>) \o Exponent(x)
    ELSE IF x < 0 THEN <<48, 46>> \o [i \in 1 .. (-x - 1) |-> 48] \o sig
    ELSE IF Len(sig) <= x + 1 THEN sig \o [i \in 1 .. (x + 1 - Len(sig)) |-> 48]
    ELSE SubSeq(sig, 1, x + 1) \o <<46>> \o SubSeq(sig, x + 2, Len(sig))

\* "%.17g" of the double t from the digits ds of its exact value and cut,
\* those digits cut to 17: the decimal exponent counts a digit the cut added
FormatCut(t, ds, cut) ==
    (IF t.ng THEN <<45>> ELSE <<>>)
      \o Styled(Stripped(cut),
                (Len(ds) - 1) + (IF t.sc < 0 THEN t.sc ELSE 0) + (IF Len(cut) > 17 THEN 1 ELSE 0))

\* "%.17g" of the double t whose exact value has the decimal digits ds
FormatDigits(t, ds) == FormatCut(t, ds, Cut17(ds))

\* sprintf "%.17g" of a finite double that is not 0: the decimal digits of
\* n * 2^sc, or of n * 5^-sc (the value times 10^-sc) when sc < 0
FormatG(t) ==
    FormatDigits(t, DecDigits(Mul(Power(IF t.sc >= 0 THEN 2 ELSE 5,
                                        IF t.sc >= 0 THEN t.sc ELSE -t.sc, Kilo),
                                  Decimal(t.n), Kilo)))

\* fabs(num) <= INT_MAX && int(num) == num
IsInt(t) == t.sc >= 0 /\ BitLen(t.n) + t.sc <= 31

\* int(num) for such a num
IntOf(t) == (IF t.ng THEN -1 ELSE 1) * SmallOf(Shl(t.n, t.sc))

NullWord == <<110, 117, 108, 108>>

TrueWord == <<116, 114, 117, 101>>

FalseWord == <<102, 97, 108, 115, 101>>

\* a _dump_number that formats every finite number with "%.17g"-like digits
\* and a decimal point
DumpNumberG(t) ==
    IF t.nc # "fin" THEN NullWord
    ELSE IF t.n = <<>> THEN <<48, 46>>
    ELSE IF t.sc >= 0 THEN FormatG(t) \o <<46>>
    ELSE FormatG(t)

\* _dump_number: "%d" for an integral double within int's range, "%.17g" else
DumpNumber(t) ==
    IF t.nc # "fin" THEN NullWord
    ELSE IF IsInt(t) THEN FormatD(IntOf(t))
    ELSE FormatG(t)

\* HEX[] = "0123456789abcdef"
Hex(d) == IF d < 10 THEN 48 + d ELSE 87 + d

\* a _dump_string without the case for 0x7f
DumpByteRaw(ch, ensure_ascii) ==
    IF ch = 34 THEN <<92, 34>>
    ELSE IF ch = 92 THEN <<92, 92>>
    ELSE IF ch = 8 THEN <<92, 98>>
    ELSE IF ch = 12 THEN <<92, 102>>
    ELSE IF ch = 10 THEN <<92, 110>>
    ELSE IF ch = 13 THEN <<92, 114>>
    ELSE IF ch = 9 THEN <<92, 116>>
    ELSE IF ch < 32 THEN <<92, 117, 48, 48, IF ch < 16 THEN 48 ELSE 49, Hex(ch % 16)>>
    ELSE IF ensure_ascii /\ ch >= 128 THEN <<92, 117, 48, 48, Hex(ch \div 16), Hex(ch % 16)>>
    ELSE <<ch>>

\* what _dump_string writes for one byte
DumpByte(ch, ensure_ascii) ==
    IF ch = 34 THEN <<92, 34>>
    ELSE IF ch = 92 THEN <<92, 92>>
    ELSE IF ch = 8 THEN <<92, 98>>
    ELSE IF ch = 12 THEN <<92, 102>>
    ELSE IF ch = 10 THEN <<92, 110>>
    ELSE IF ch = 13 THEN <<92, 114>>
    ELSE IF ch = 9 THEN <<92, 116>>
    ELSE IF ch = 127 THEN <<92, 117, 48, 48, 55, 102>>
    ELSE IF ch < 32 THEN <<92, 117, 48, 48, IF ch < 16 THEN 48 ELSE 49, Hex(ch % 16)>>
    ELSE IF ensure_ascii /\ ch >= 128 THEN <<92, 117, 48, 48, Hex(ch \div 16), Hex(ch % 16)>>
    ELSE <<ch>>

RECURSIVE DumpBytes(_, _)
DumpBytes(str, ensure_ascii) ==
    IF str = <<>> THEN <<>>
    ELSE DumpByte(Head(str), ensure_ascii) \o DumpBytes(Tail(str), ensure_ascii)

\* _dump_string
DumpString(str, ensure_ascii) == <<34>> \o DumpBytes(str, ensure_ascii) \o <<34>>

Rep(ch, n) == [i \in 1 .. n |-> ch]

\* the fill dump_context::newline writes for indent n: write(spaces) passes
\* the char[SP_N] array to write(const char(&)[N]), which writes N - 1 chars
RECURSIVE Fill(_, _)
Fill(ch, n) == IF n >= SP_N THEN Rep(ch, SP_N - 1) \o Fill(ch, n - SP_N) ELSE Rep(ch, n)

\* dump_context::newline at indent ind
Newline(opt, ind) ==
    IF ind < 0 THEN <<>>
    ELSE IF ind = 0 THEN <<10>>
    ELSE <<10>> \o Fill(opt.indent_char, ind)

\* dump_context's constructor: indent starts at 0 only when opt.indent > 0
StartIndent(opt) == IF opt.indent > 0 THEN 0 ELSE -1

\* _dump at indent ind
RECURSIVE DumpT(_, _, _)
RECURSIVE DumpElems(_, _, _, _)
RECURSIVE DumpMembers(_, _, _, _)
DumpT(t, opt, ind) ==
    IF t.t = "null" THEN NullWord
    ELSE IF t.t = "boolean" THEN (IF t.b THEN TrueWord ELSE FalseWord)
    ELSE IF t.t = "number" THEN DumpNumber(t)
    ELSE IF t.t = "string" THEN DumpString(t.s, opt.ensure_ascii)
    ELSE IF t.t = "array"
    THEN IF t.e = <<>> THEN <<91, 93>>
         ELSE <<91>> \o DumpElems(t.e, opt, ind + opt.indent, TRUE)
                \o Newline(opt, ind) \o <<93>>
    ELSE IF t.m = <<>> THEN <<123, 125>>
         ELSE <<123>> \o DumpMembers(t.m, opt, ind + opt.indent, TRUE)
                \o Newline(opt, ind) \o <<125>>

DumpElems(es, opt, ind, first) ==
    IF es = <<>> THEN <<>>
    ELSE (IF first THEN <<>> ELSE <<44>>) \o Newline(opt, ind)
           \o DumpT(Head(es), opt, ind) \o DumpElems(Tail(es), opt, ind, FALSE)

\* a loop over the members that writes ":" where _dump writes ": "
DumpMembersTight(ms, opt, ind, first) ==
    IF ms = <<>> THEN <<>>
    ELSE (IF first THEN <<>> ELSE <<44>>) \o Newline(opt, ind)
           \o DumpString(Head(ms).k, opt.ensure_ascii) \o <<58>>
           \o DumpT(Head(ms).v, opt, ind) \o DumpMembers(Tail(ms), opt, ind, FALSE)

DumpMembers(ms, opt, ind, first) ==
    IF ms = <<>> THEN <<>>
    ELSE (IF first THEN <<>> ELSE <<44>>) \o Newline(opt, ind)
           \o DumpString(Head(ms).k, opt.ensure_ascii) \o <<58, 32>>
           \o DumpT(Head(ms).v, opt, ind) \o DumpMembers(Tail(ms), opt, ind, FALSE)

\* dump / dumps
Dumps(t, opt) ==
    DumpT(t, opt, StartIndent(opt)) \o (IF opt.indent >= 0 THEN <<10>> ELSE <<>>)

\* dump_options' defaults
DefaultOptions == [indent |-> -1, indent_char |-> 32, ensure_ascii |-> FALSE]

(* ------------------------------- reader -------------------------------- *)

\* EOF (-1) converted to the char that read() returns
EOFc == 255

\* reader_interface<Iter>::read at cursor p of the range tx: the end of the
\* range reads as EOF and is not passed; every byte before it is returned as
\* it is, a 0 included, and the cursor moves on
RdCh(tx, p) == IF p > Len(tx) THEN EOFc ELSE tx[p]

RdPos(tx, p) == IF p > Len(tx) THEN p ELSE p + 1

\* the cursor of the terminator: the first 0 of the text, or its end
Terminator(tx) ==
    CHOOSE p \in 1 .. (Len(tx) + 1) :
        (p > Len(tx) \/ tx[p] = 0) /\ \A q \in 1 .. (p - 1) : tx[q] # 0

\* what reader_interface<const char*> reads of the buffer tx: the chars
\* before the terminator, which reads as EOF and is not passed
CString(tx) == SubSeq(tx, 1, Terminator(tx) - 1)

\* isspace / isdigit in the "C" locale
IsSpace(c) == c \in {9, 10, 11, 12, 13, 32}

IsDigit(c) == c \in 48 .. 57

\* the cursor of the first non-space character at or after p
RECURSIVE SkipSpace(_, _)
SkipSpace(tx, p) == IF IsSpace(RdCh(tx, p)) THEN SkipSpace(tx, RdPos(tx, p)) ELSE p

\* reader::nonspace_read: the character returned and the cursor afterwards
NonspaceCh(tx, p) == RdCh(tx, SkipSpace(tx, p))

NonspacePos(tx, p) == RdPos(tx, SkipSpace(tx, p))

(* ------------------------------- parser -------------------------------- *)

\* what a _parse... call leaves: the char it returns (0 = failed), the cursor,
\* and the Value (or string, array, object) it was building
Res(ch, pos, v) == [ch |-> ch, pos |-> pos, v |-> v]

RECURSIVE DigitRun(_, _, _, _)

\* while (isdigit(ch)) for r, what one turn of the loop left
DigitNext(tx, r) == IF IsDigit(r.ch) THEN DigitRun(tx, r.pos, r.ch, r.n) ELSE r

\* do num = num * 10 + (ch - '0'); ch = read(); while (isdigit(ch))
DigitRun(tx, p, ch, num) ==
    DigitNext(tx, [n |-> Plus(Times(num, OfInt(10)), OfInt(ch - 48)),
                   ch |-> RdCh(tx, p), pos |-> RdPos(tx, p)])

RECURSIVE FracRun(_, _, _, _)

\* num += base * (ch - '0') with base what base /= 10 left
FracAdd(tx, r, base) ==
    FracRun(tx, r.pos, Plus(r.n, Times(base, OfInt(r.ch - 48))), base)

\* the loop's test on r, what was read so far, and base /= 10 when it passes
FracNext(tx, r) == IF IsDigit(r.ch) THEN FracAdd(tx, r, TenthOf(r.base)) ELSE r

\* while (isdigit(ch = read())) { base /= 10; num += base * (ch - '0'); }
FracRun(tx, p, num, base) ==
    FracNext(tx, [n |-> num, base |-> base, ch |-> RdCh(tx, p), pos |-> RdPos(tx, p)])

\* expo * 10 + d in an int: past INT_MAX the build wraps around modulo 2^32
Wrapped(expo, d) ==
    LET lo == (expo % 65536) * 10 + d
        hi == (((expo \div 65536) % 65536) * 10 + (lo \div 65536)) % 65536
    IN (IF hi >= 32768 THEN hi - 65536 ELSE hi) * 65536 + (lo % 65536)

\* int expo = ch - '0'; while (isdigit(ch = read())) expo = expo * 10 + (ch - '0');
RECURSIVE ExpoRun(_, _, _)
ExpoRun(tx, p, expo) ==
    LET r == [n |-> expo, ch |-> RdCh(tx, p), pos |-> RdPos(tx, p)]
    IN IF IsDigit(r.ch) THEN ExpoRun(tx, r.pos, Wrapped(r.n, r.ch - 48)) ELSE r

\* neg ? -num : num
Signed(neg, num) == NumOf(IF neg THEN Minus(num) ELSE num)

\* num *= pow(10, eneg ? -expo : expo); -expo of INT_MIN is INT_MIN
Scaled(num, eneg, expo) ==
    Times(num, Pow10(IF eneg /\ expo # -2147483647 - 1 THEN -expo ELSE expo))

\* the tail of _parse_number: store the number, return the lookahead
NumberDone(tx, pos, ch, t) ==
    IF IsSpace(ch) THEN Res(NonspaceCh(tx, pos), NonspacePos(tx, pos), t)
    ELSE Res(ch, pos, t)

\* num *= pow(10, eneg ? -expo : expo) once the exponent's digits ep are read
NumberExpDone(tx, neg, fp, eneg, ep) ==
    NumberDone(tx, ep.pos, ep.ch, Signed(neg, Scaled(fp.n, eneg, ep.n)))

\* the exponent of _parse_number: c2 is the char read after 'E' or 'e'
NumberExp(tx, neg, fp, c2, p2, old) ==
    LET c3 == IF c2 \in {43, 45} THEN RdCh(tx, p2) ELSE c2
        p3 == IF c2 \in {43, 45} THEN RdPos(tx, p2) ELSE p2
    IN IF ~IsDigit(c3) THEN Res(0, p3, old)
       ELSE NumberExpDone(tx, neg, fp, c2 = 45, ExpoRun(tx, p3, c3 - 48))

\* _parse_number once the integer and fraction fp are read
NumberTail(tx, neg, fp, old) ==
    IF fp.ch \in {69, 101}
    THEN NumberExp(tx, neg, fp, RdCh(tx, fp.pos), RdPos(tx, fp.pos), old)
    ELSE NumberDone(tx, fp.pos, fp.ch, Signed(neg, fp.n))

\* _parse_number once the integer part ip is read
NumberFrac(tx, neg, ip, old) ==
    NumberTail(tx, neg, IF ip.ch = 46 THEN FracRun(tx, ip.pos, ip.n, OfInt(1)) ELSE ip, old)

\* a _parse_number that goes on reading digits after a leading 0
NumberIntGreedy(tx, neg, c1, p1, old) ==
    NumberFrac(tx, neg, DigitRun(tx, p1, c1, Zero), old)

\* _parse_number from its first digit c1, read at cursor p1
NumberInt(tx, neg, c1, p1, old) ==
    NumberFrac(tx, neg,
               IF c1 # 48 THEN DigitRun(tx, p1, c1, Zero)
               ELSE [n |-> Zero, ch |-> RdCh(tx, p1), pos |-> RdPos(tx, p1)], old)

\* _parse_number entered on ch (a digit or '-') with the cursor at p; old is
\* what the Value held, kept when the parse fails
ParseNumber(tx, p, ch, old) ==
    IF ch = 45 /\ ~IsDigit(RdCh(tx, p)) THEN Res(0, RdPos(tx, p), old)
    ELSE NumberInt(tx, ch = 45, IF ch = 45 THEN RdCh(tx, p) ELSE ch,
                   IF ch = 45 THEN RdPos(tx, p) ELSE p, old)

\* one hex digit's value, -1 when the char is none
HexVal(c) ==
    IF IsDigit(c) THEN c - 48
    ELSE IF c \in 97 .. 102 THEN c - 87
    ELSE IF c \in 65 .. 70 THEN c - 55
    ELSE -1

\* the cursor after n reads
RECURSIVE RdPosN(_, _, _)
RdPosN(tx, p, n) == IF n = 0 THEN p ELSE RdPosN(tx, RdPos(tx, p), n - 1)

\* ret of _read_hex4 for the four digit values h, 0 when one is no hex digit
Hex4(h) ==
    IF \E i \in 1 .. 4 : h[i] < 0 THEN 0
    ELSE h[1] * 4096 + h[2] * 256 + h[3] * 16 + h[4]

\* _read_hex4: four reads, then the value
ReadHex4(tx, p) == Hex4([i \in 1 .. 4 |-> HexVal(RdCh(tx, RdPosN(tx, p, i - 1)))])

\* _store_utf8
StoreUtf8(cp) ==
    IF cp < 128 THEN <<cp, 0>>
    ELSE IF cp <= 2047 THEN <<192 + (cp \div 64), 128 + (cp % 64), 0>>
    ELSE IF cp <= 65535
    THEN <<224 + (cp \div 4096), 128 + ((cp \div 64) % 64), 128 + (cp % 64), 0>>
    ELSE <<240 + (cp \div 262144), 128 + ((cp \div 4096) % 64),
           128 + ((cp \div 64) % 64), 128 + (cp % 64), 0>>

\* out += u8str: the bytes before the terminator
RECURSIVE CStr(_)
CStr(bs) == IF bs = <<>> \/ Head(bs) = 0 THEN <<>> ELSE <<Head(bs)>> \o CStr(Tail(bs))

\* the code point a \u escape is refused for
BadCodePoint(cp) == cp = 0

\* what an escape other than \u appends to out; e is the char after '\'
Unescaped(e) ==
    IF e \in {34, 92, 47} THEN <<e>>
    ELSE IF e = 98 THEN <<8>>
    ELSE IF e = 102 THEN <<12>>
    ELSE IF e = 110 THEN <<10>>
    ELSE IF e = 114 THEN <<13>>
    ELSE IF e = 116 THEN <<9>>
    ELSE <<92, e>>

RECURSIVE ParseString(_, _, _)

\* case 'u' of _parse_string: cp is what _read_hex4 returned, p6 the cursor
UnicodeEscape(tx, cp, p6, out) ==
    IF BadCodePoint(cp) THEN Res(0, p6, out)
    ELSE ParseString(tx, p6, out \o CStr(StoreUtf8(cp)))

\* _parse_string with the cursor at p, appending to out
ParseString(tx, p, out) ==
    LET ch == RdCh(tx, p)
        p1 == RdPos(tx, p)
    IN IF ch = 34 THEN Res(NonspaceCh(tx, p1), NonspacePos(tx, p1), out)
       ELSE IF ch = EOFc THEN Res(0, p1, out)
       ELSE IF ch # 92 THEN ParseString(tx, p1, Append(out, ch))
       ELSE IF RdCh(tx, p1) = 117
       THEN UnicodeEscape(tx, ReadHex4(tx, RdPos(tx, p1)), RdPosN(tx, p1, 5), out)
       ELSE ParseString(tx, RdPos(tx, p1), out \o Unescaped(RdCh(tx, p1)))

\* the reads of a literal's tail stop at the first character that differs
RECURSIVE MatchWord(_, _, _)
MatchWord(tx, p, w) ==
    IF w = <<>> THEN [ok |-> TRUE, pos |-> p]
    ELSE IF RdCh(tx, p) # Head(w) THEN [ok |-> FALSE, pos |-> RdPos(tx, p)]
    ELSE MatchWord(tx, RdPos(tx, p), Tail(w))

\* a literal once its tail was compared: m_var = t; return nonspace_read()
WordDone(tx, r, t, old) ==
    IF r.ok THEN Res(NonspaceCh(tx, r.pos), NonspacePos(tx, r.pos), t)
    ELSE Res(0, r.pos, old)

\* the true / false / null cases of _parse
ParseWord(tx, p, w, t, old) == WordDone(tx, MatchWord(tx, p, Tail(w)), t, old)

\* the Value that set_string / set_array / set_object made and r.v filled
Filled(k, r) ==
    Res(r.ch, r.pos,
        IF k = "string" THEN StringT(r.v) ELSE IF k = "array" THEN ArrayT(r.v)
        ELSE ObjectT(r.v))

RECURSIVE ParseValue(_, _, _, _)
RECURSIVE ParseArray(_, _, _, _)
RECURSIVE ParseObject(_, _, _, _)

\* _parse on a Value holding old, entered on ch with the cursor at p
ParseValue(tx, p, ch, old) ==
    IF IsDigit(ch) \/ ch = 45 THEN ParseNumber(tx, p, ch, old)
    ELSE IF ch = 34 THEN Filled("string", ParseString(tx, p, <<>>))
    ELSE IF ch = 123
    THEN Filled("object", ParseObject(tx, NonspacePos(tx, p), NonspaceCh(tx, p), <<>>))
    ELSE IF ch = 91
    THEN Filled("array", ParseArray(tx, NonspacePos(tx, p), NonspaceCh(tx, p), <<>>))
    ELSE IF ch = 116 THEN ParseWord(tx, p, TrueWord, BoolT(TRUE), old)
    ELSE IF ch = 102 THEN ParseWord(tx, p, FalseWord, BoolT(FALSE), old)
    ELSE IF ch = 110 THEN ParseWord(tx, p, NullWord, NullT, old)
    ELSE Res(0, p, old)

\* a loop of _parse_array that takes the end of the text for the closing ']'
ArrayNextLenient(tx, r, out) ==
    IF r.ch = 0 THEN Res(0, r.pos, Append(out, r.v))
    ELSE IF r.ch \in {93, EOFc}
    THEN Res(NonspaceCh(tx, r.pos), NonspacePos(tx, r.pos), Append(out, r.v))
    ELSE IF r.ch # 44 THEN Res(0, r.pos, Append(out, r.v))
    ELSE ParseArray(tx, NonspacePos(tx, r.pos), NonspaceCh(tx, r.pos), Append(out, r.v))

\* the loop of _parse_array once _parse returned r for the element that
\* emplace_back() added to out
ArrayNext(tx, r, out) ==
    IF r.ch = 0 THEN Res(0, r.pos, Append(out, r.v))
    ELSE IF r.ch = 93
    THEN Res(NonspaceCh(tx, r.pos), NonspacePos(tx, r.pos), Append(out, r.v))
    ELSE IF r.ch # 44 THEN Res(0, r.pos, Append(out, r.v))
    ELSE ParseArray(tx, NonspacePos(tx, r.pos), NonspaceCh(tx, r.pos), Append(out, r.v))

\* _parse_array once ch, the first token after '[' or ',', has been read
ParseArray(tx, p, ch, out) ==
    IF ch = 93 /\ out = <<>> THEN Res(NonspaceCh(tx, p), NonspacePos(tx, p), out)
    ELSE ArrayNext(tx, ParseValue(tx, p, ch, NullT), out)

\* the loop of _parse_object once the member's value was parsed with result r
ObjectNext(tx, key, r, out) ==
    IF r.ch = 0 THEN Res(0, r.pos, out)
    ELSE IF r.ch = 125
    THEN Res(NonspaceCh(tx, r.pos), NonspacePos(tx, r.pos), MapEmplace(out, key, r.v))
    ELSE IF r.ch # 44 THEN Res(0, r.pos, MapEmplace(out, key, r.v))
    ELSE ParseObject(tx, NonspacePos(tx, r.pos), NonspaceCh(tx, r.pos),
                     MapEmplace(out, key, r.v))

\* the loop of _parse_object once the key's _parse_string returned k
ObjectValue(tx, k, out) ==
    IF k.ch = 0 \/ k.ch # 58 THEN Res(0, k.pos, out)
    ELSE ObjectNext(tx, k.v,
                    ParseValue(tx, NonspacePos(tx, k.pos), NonspaceCh(tx, k.pos), NullT),
                    out)

\* a _parse_object that takes '}' after a comma as well
ParseObjectLoose(tx, p, ch, out) ==
    IF ch = 125 THEN Res(NonspaceCh(tx, p), NonspacePos(tx, p), out)
    ELSE IF ch # 34 THEN Res(0, p, out)
    ELSE ObjectValue(tx, ParseString(tx, p, <<>>), out)

\* _parse_object once ch, the first token after '{' or ',', has been read
ParseObject(tx, p, ch, out) ==
    IF ch = 125 /\ out = <<>> THEN Res(NonspaceCh(tx, p), NonspacePos(tx, p), out)
    ELSE IF ch # 34 THEN Res(0, p, out)
    ELSE ObjectValue(tx, ParseString(tx, p, <<>>), out)

\* m_var as long as _parse has not assigned it
Untouched == [NullT EXCEPT !.t = "untouched"]

\* what _load's caller finds once _parse returned r on a Value holding old:
\* res is the char r.ch converted to bool, so a lookahead of 0 reads as a
\* failure; the Value holds what _parse assigned, or old when it assigned
\* nothing (a number or a literal that failed)
LoadResult(r, old) ==
    [ok |-> r.ch # 0, v |-> IF r.v = Untouched THEN old ELSE r.v, pos |-> r.pos,
     set |-> r.v # Untouched]

\* _load from the range tx on a Value holding old
Load(tx, old) ==
    LoadResult(ParseValue(tx, NonspacePos(tx, 1), NonspaceCh(tx, 1), Untouched), old)

(* ------------------------------ machine -------------------------------- *)

NoHandle == [k |-> "none", p |-> 0]

\* what the caller of the last operation observed: err is the failure raised
\* ("" = none), ret the slot of the basic_json& it returned, ok the bool a
\* load returned
Obs(op, err, ret) == [op |-> op, err |-> err, ret |-> ret, ok |-> err = ""]

\* the documents root a is constructed from: null, [["s"]] and {"x": "s"}
Seeds ==
    {NullT,
     ArrayT(<<ArrayT(<<StringT(Lit)>>)>>),
     ObjectT(<<[k |-> <<120>>, v |-> StringT(Lit)]>>)}

NoLoad == [ok |-> FALSE, v |-> NullT, pos |-> 0, set |-> FALSE]

\* after construction: a built by the converting constructors, b default
Init ==
    /\ strategy \in Strategies
    /\ \E t \in Seeds :
         LET r == Build([a \in Addr |-> FreeCell], t)
         IN /\ heap = r.h
            /\ root = [x \in Roots |-> IF x = "a" THEN r.v ELSE NullV]
    /\ hnd = [i \in Handles |-> NoHandle]
    /\ last = Obs("init", "", NoSlot)
    /\ steps = 0
    /\ doc = NullT
    /\ options = DefaultOptions
    /\ text = <<>>
    /\ back = NoLoad
    /\ pc = "idle"

\* the Values the program can name: a, b and every Value stored below them or
\* below a handle; a payload that only holds itself has leaked
Held ==
    LET known == UNION ({Reach(heap, root[r]) : r \in Roots}
                          \cup {Reach(heap, CompV(hnd[i].k, hnd[i].p)) : i \in Handles})
    IN {s \in LiveSlots(heap) : s.c = 0 \/ s.c \in known}

\* after undefined behaviour (the payload of a null smart pointer was read or
\* written, a destroyed Value was read, a walk did not end) the run is over
Alive == last.err # "UB" /\ steps < MaxSteps

\* an operation that raised: nothing but the observation changes
Raise(op, err) ==
    /\ last' = Obs(op, err, NoSlot)
    /\ steps' = steps + 1
    /\ UNCHANGED <<strategy, heap, root, hnd, round>>

\* an operation that stored into Values: w is [h, rt]
Commit(op, ret, w) ==
    /\ heap' = w.h
    /\ root' = w.rt
    /\ last' = Obs(op, "", ret)
    /\ steps' = steps + 1
    /\ UNCHANGED <<strategy, hnd, round>>

\* replace the Value in slot d by a freshly built tree: the old payload loses
\* this owner, the new one is made by make_smart
StoreTree(h, rt, d, t) ==
    LET h1 == Release(h, <<Read(h, rt, d).p>>)
        r == Build(h1, t)
    IN Write(r.h, rt, d, r.v)

Fits(h, rt, d, t) ==
    Cells(t) <= Cardinality(FreeAddrs(Release(h, <<Read(h, rt, d).p>>)))

\* the trees the converting constructors are called with
Literals ==
    {NullT, BoolT(TRUE), NumT(7, 0), StringT(Lit)}

\* basic_json(nullptr_t / bool / number / const char* ) then operator=(&&)
Construct(d, t) ==
    /\ Alive
    /\ Fits(heap, root, d, t)
    /\ Commit("Construct", d, StoreTree(heap, root, d, t))

\* set_string / set_array / set_object
SetKind(d, k) ==
    /\ Alive
    /\ Fits(heap, root, d, EmptyT(k))
    /\ Commit("Set", d, StoreTree(heap, root, d, EmptyT(k)))

\* a copy that would take the source's payload handle instead of cloning it
CopyOfAliased(h, rt, d, s) ==
    LET v == Read(h, rt, s)
        h1 == Release(h, <<Read(h, rt, d).p>>)
    IN Write(IF v.p = 0 THEN h1 ELSE [h1 EXCEPT ![v.p].rc = @ + 1], rt, d, v)

\* a copy that would release d's payload before it reads the source: a source
\* that went with the payload reads as Null
CopyOfLate(h, rt, d, s) ==
    LET h1 == Release(h, <<Read(h, rt, d).p>>)
        v == Read(h, rt, s)
        gone == \/ s.c # 0 /\ h1[s.c].k = "free"
                \/ v.p # 0 /\ h1[v.p].k = "free"
    IN StoreTree(h, rt, d, IF gone THEN NullT ELSE Abs(h, v))

\* the deep copy operator= stores in d
CopyOf(h, rt, d, s) == StoreTree(h, rt, d, Abs(h, Read(h, rt, s)))

\* operator=(const basic_json&) and basic_json(const basic_json&)
CopyAssign(d, s) ==
    /\ Alive
    /\ LET t == Abs(heap, Read(heap, root, s))
       IN IF Endless(t) \/ HasNullPayload(t)
          THEN Raise("Copy", "UB")
          ELSE /\ Fits(heap, root, d, t)
               /\ Commit("Copy", d, CopyOf(heap, root, d, s))

\* slot s lies inside the payload tree of the Value in slot d
Inside(h, rt, s, d) == s.c # 0 /\ s.c \in Reach(h, Read(h, rt, d))

\* what a moved-from Value holds: the variant keeps its alternative; a
\* unique_ptr / shared_ptr is left null, an inline container is left empty
MovedFrom(h, v) ==
    IF v.t \notin Composite THEN [h |-> h, v |-> v]
    ELSE IF strategy = "Inline"
         THEN LET c == NewAddr(h)
              IN [h |-> [h EXCEPT ![c] = EmptyCell(v.t)], v |-> CompV(v.t, c)]
         ELSE [h |-> h, v |-> CompV(v.t, 0)]

\* the variant move between two Values of which s is not stored in d's
\* payload: d lets its payload go and takes the alternative s held.  With d
\* stored in s's payload that payload ends up holding itself, and leaks
MoveOf(h, rt, d, s) ==
    LET v == Read(h, rt, s)
        h1 == Release(h, <<Read(h, rt, d).p>>)
        mf == MovedFrom(h1, v)
        w1 == Write(mf.h, rt, s, mf.v)
    IN Write(w1.h, w1.rt, d, v)

\* d = std::move(d): a unique_ptr / shared_ptr gives its pointer up and takes
\* it back; an inline string is cleared, an inline vector or map hands its
\* elements to a temporary that dies with them
SelfMoved(h, v) ==
    IF strategy = "Inline" /\ v.t \in Composite
    THEN [Release(h, ChildPtrs(h[v.p])) EXCEPT ![v.p] = EmptyCell(v.t)]
    ELSE h

\* d = std::move(s) for s stored in d's payload, when s is read before that
\* payload is let go: d takes what s held and s, left with an empty handle,
\* goes with the payload unless another owner keeps it
MoveUp(h, rt, d, s) ==
    LET v == Read(h, rt, s)
        w0 == Write(h, rt, s, [v EXCEPT !.p = 0])
    IN Write(Release(w0.h, <<Read(h, rt, d).p>>), w0.rt, d, v)

\* s, stored in d's payload, is not read after its destruction: letting d's
\* payload go does not destroy s (a handle owns the payload too), or d and s
\* hold the same alternative and s is read first, as by a unique_ptr or
\* shared_ptr (reset(release())) and by an inline vector (swap with a
\* temporary).  Otherwise the variant's emplace, or the inline map's clear(),
\* destroys s and then reads it
ReadFirst(h, rt, d, s) ==
    \/ Release(h, <<Read(h, rt, d).p>>)[s.c].k # "free"
    \/ /\ Read(h, rt, d).t = Read(h, rt, s).t
       /\ ~(strategy = "Inline" /\ Read(h, rt, s).t = "object")

\* what a destroyed Value stored in slot s may read as when the run goes on.
\* Of a nullptr_t the word that is loaded is not used: it reads as null.
\* Element 0 of an array lies in the first 16 bytes of the vector's buffer,
\* which free() writes over: a bool there reads as either value, a number as
\* the double whose bits are the word left there (class "freed": the word is
\* made of heap addresses and differs from run to run), and a pointer is
\* lost.  An inline map keeps its root pointer behind those bytes, and reads
\* as empty wherever it was stored empty.  Anywhere else a bool or a number
\* reads as it was, a null unique_ptr or shared_ptr as null, a unique_ptr as
\* the null its destructor stored, a short inline string as the characters it
\* kept in place, an empty inline vector as empty.  A shared_ptr and an inline
\* vector or map that had elements read as handles to memory that was freed
Lingers(h, rt, s) ==
    LET v == Read(h, rt, s)
        first == h[s.c].k = "array" /\ s.i = 1
    IN IF v.t = "null" THEN {v}
       ELSE IF v.t = "boolean" THEN (IF first THEN {BoolV(TRUE), BoolV(FALSE)} ELSE {v})
       ELSE IF v.t = "number"
       THEN (IF first THEN {NumV([Zero EXCEPT !.nc = "freed"])} ELSE {v})
       ELSE IF strategy = "Inline" /\ v.t = "object"
       THEN (IF h[v.p].m = <<>> THEN {v} ELSE {})
       ELSE IF first THEN {}
       ELSE IF v.p = 0 THEN {v}
       ELSE IF strategy = "Unique" THEN {CompV(v.t, 0)}
       ELSE IF strategy = "Shared" THEN {}
       ELSE IF v.t = "string" \/ h[v.p].e = <<>> THEN {v}
       ELSE {}

\* d = std::move(s) where s was destroyed with d's payload and read afterwards
\* as v: an inline payload that v still holds goes to d with it
MoveStale(h, rt, d, s, v) ==
    LET w0 == IF v.p = 0 THEN [h |-> h, rt |-> rt] ELSE Write(h, rt, s, CompV(v.t, 0))
    IN Write(Release(w0.h, <<Read(h, rt, d).p>>), w0.rt, d, v)

\* basic_json(basic_json&&) and operator=(basic_json&&), defaulted: the move
\* of the variant.  With s inside d's payload and destroyed before it is read
\* the behaviour is undefined: the run crashes or ends up with memory it does
\* not own, or it goes on with what was left of s
MoveAssign(d, s) ==
    /\ Alive
    /\ IF d = s
       THEN Commit("Move", d, [h |-> SelfMoved(heap, Read(heap, root, d)), rt |-> root])
       ELSE IF Inside(heap, root, s, d)
       THEN IF ReadFirst(heap, root, d, s)
            THEN Commit("Move", d, MoveUp(heap, root, d, s))
            ELSE \/ Raise("Move", "UB")
                 \/ \E v \in Lingers(heap, root, s) :
                        Commit("Move", d, MoveStale(heap, root, d, s, v))
       ELSE /\ strategy = "Inline" /\ Read(heap, root, s).t \in Composite
                 => FreeAddrs(Release(heap, <<Read(heap, root, d).p>>)) # {}
            /\ Commit("Move", d, MoveOf(heap, root, d, s))

\* a check that would tell the composite alternatives from the scalars only
HoldsLoosely(v, k) == v.t = k \/ (v.t \in Composite /\ k \in Composite)

\* std::get<T>(m_var) on another alternative throws bad_variant_access
Holds(v, k) == v.t = k

\* *sptr on a null smart pointer
NullPayload(v) == v.t \in Composite /\ v.p = 0

Kinds == {"boolean", "number", "string", "array", "object"}

\* get_bool / get_number / get_string / get_array / get_object, both forms.
\* On a moved-from Value of the kind asked for the call forms the reference
\* *ptr from a null smart pointer, which is undefined: it returns like on any
\* other Value, or the library's check of the pointer ends the run
Get(d, k) ==
    /\ Alive
    /\ LET v == Read(heap, root, d)
       IN IF ~Holds(v, k) THEN Raise("Get", "TypeMismatch")
          ELSE \/ /\ last' = Obs("Get", "", NoSlot)
                  /\ steps' = steps + 1
                  /\ UNCHANGED <<strategy, heap, root, hnd, round>>
               \/ NullPayload(v) /\ Raise("Get", "UB")

\* get_string() used as an lvalue: get_string().push_back('c')
GetStringAppend(d) ==
    /\ Alive
    /\ LET v == Read(heap, root, d)
       IN IF ~Holds(v, "string") THEN Raise("Append", "TypeMismatch")
          ELSE IF NullPayload(v) THEN Raise("Append", "UB")
          ELSE /\ Len(heap[v.p].s) < 2
               /\ Commit("Append", d,
                         [h |-> [heap EXCEPT ![v.p].s = Append(@, 99)], rt |-> root])

Nulls(n) == [i \in 1 .. n |-> NullV]

\* a resize one element short: arr.resize(idx)
GrownShort(e, idx) == IF Len(e) <= idx THEN e \o [i \in 1 .. (idx - Len(e)) |-> NullV] ELSE e

\* the array after operator[](idx) made room for element idx
Grown(e, idx) == IF Len(e) <= idx THEN e \o Nulls(idx + 1 - Len(e)) ELSE e

\* basic_json& operator[](size_t idx)
IndexMut(d, idx) ==
    /\ Alive
    /\ LET v == Read(heap, root, d)
       IN IF v.t = "null"
          THEN /\ FreeAddrs(heap) # {}
               /\ LET c == NewAddr(heap)
                      h1 == [heap EXCEPT ![c] = [EmptyCell("array") EXCEPT !.e = Nulls(idx + 1)]]
                  IN Commit("IndexMut", CellSlot(c, idx + 1),
                            Write(h1, root, d, CompV("array", c)))
          ELSE IF ~Holds(v, "array") THEN Raise("IndexMut", "TypeMismatch")
          ELSE IF NullPayload(v) THEN Raise("IndexMut", "UB")
          ELSE Commit("IndexMut", CellSlot(v.p, idx + 1),
                      [h |-> [heap EXCEPT ![v.p].e = Grown(@, idx)], rt |-> root])

\* a range check off by one: idx > size() instead of idx >= size()
PastEndLate(e, idx) == idx > Len(e)

\* vector::at's range check
PastEnd(e, idx) == idx >= Len(e)

\* const basic_json& operator[](size_t idx) const: get_array().at(idx)
IndexConst(d, idx) ==
    /\ Alive
    /\ LET v == Read(heap, root, d)
       IN IF ~Holds(v, "array") THEN Raise("IndexConst", "TypeMismatch")
          ELSE IF NullPayload(v) THEN Raise("IndexConst", "UB")
          ELSE IF PastEnd(heap[v.p].e, idx) THEN Raise("IndexConst", "IndexOutOfRange")
          ELSE /\ last' = Obs("IndexConst", "", CellSlot(v.p, idx + 1))
               /\ steps' = steps + 1
               /\ UNCHANGED <<strategy, heap, root, hnd, round>>

\* basic_json& operator[](const string& key)
KeyMut(d, key) ==
    /\ Alive
    /\ LET v == Read(heap, root, d)
       IN IF v.t = "null"
          THEN /\ FreeAddrs(heap) # {}
               /\ LET c == NewAddr(heap)
                      h1 == [heap EXCEPT ![c] = [EmptyCell("object") EXCEPT
                                                   !.m = MapEmplace(<<>>, key, NullV)]]
                  IN Commit("KeyMut", CellSlot(c, 1),
                            Write(h1, root, d, CompV("object", c)))
          ELSE IF ~Holds(v, "object") THEN Raise("KeyMut", "TypeMismatch")
          ELSE IF NullPayload(v) THEN Raise("KeyMut", "UB")
          ELSE LET m1 == MapEmplace(heap[v.p].m, key, NullV)
               IN Commit("KeyMut", CellSlot(v.p, FindKey(m1, key)),
                         [h |-> [heap EXCEPT ![v.p].m = m1], rt |-> root])

\* const basic_json& operator[](const string& key) const
KeyConst(d, key) ==
    /\ Alive
    /\ LET v == Read(heap, root, d)
       IN IF ~Holds(v, "object") THEN Raise("KeyConst", "TypeMismatch")
          ELSE IF NullPayload(v) THEN Raise("KeyConst", "UB")
          ELSE IF FindKey(heap[v.p].m, key) = 0 THEN Raise("KeyConst", "KeyNotFound")
          ELSE /\ last' = Obs("KeyConst", "", CellSlot(v.p, FindKey(heap[v.p].m, key)))
               /\ steps' = steps + 1
               /\ UNCHANGED <<strategy, heap, root, hnd, round>>

\* a handle variable takes a new smart pointer; the one it held is destroyed
Rebind(op, i, k, p, h1, rt1) ==
    /\ heap' = Release(h1, <<hnd[i].p>>)
    /\ root' = rt1
    /\ hnd' = [hnd EXCEPT ![i] = [k |-> k, p |-> p]]
    /\ last' = Obs(op, "", NoSlot)
    /\ steps' = steps + 1
    /\ UNCHANGED <<strategy, round>>

\* a _get_moved without m_var = nullptr: the alternative keeps its emptied handle
MovedOutKept(v) == [v EXCEPT !.p = 0]

\* what _get_moved leaves in m_var once the smart pointer is moved out
MovedOut(v) == NullV

\* _get_moved<T>: get_moved_string / get_moved_array / get_moved_object
GetMoved(d, k, i) ==
    /\ Alive
    /\ strategy # "Inline"
    /\ LET v == Read(heap, root, d)
       IN IF ~Holds(v, k)
          THEN Rebind("GetMoved", i, k, 0, heap, root)
          ELSE LET w == Write(heap, root, d, MovedOut(v))
               IN Rebind("GetMoved", i, k, v.p, w.h, w.rt)

\* a handle that would not count as an owner
SharedUncounted(h, p) == h

\* the owner count after get_shared_* copied the smart pointer
Shared(h, p) == IF p = 0 THEN h ELSE [h EXCEPT ![p].rc = @ + 1]

\* get_shared_string / get_shared_array / get_shared_object
GetShared(d, k, i) ==
    /\ Alive
    /\ strategy = "Shared"
    /\ LET v == Read(heap, root, d)
       IN IF ~Holds(v, k)
          THEN Rebind("GetShared", i, k, 0, heap, root)
          ELSE Rebind("GetShared", i, k, v.p, Shared(heap, v.p), root)

\* a handle goes out of scope
HandleDrop(i) ==
    /\ Alive
    /\ hnd[i].k # "none"
    /\ heap' = Release(heap, <<hnd[i].p>>)
    /\ hnd' = [hnd EXCEPT ![i] = NoHandle]
    /\ last' = Obs("HandleDrop", "", NoSlot)
    /\ steps' = steps + 1
    /\ UNCHANGED <<strategy, root, round>>

\* the payload written through a handle: push_back on a string or an array,
\* emplace on an object
Written(c) ==
    IF c.k = "string" THEN [c EXCEPT !.s = Append(@, 104)]
    ELSE IF c.k = "array" THEN [c EXCEPT !.e = Append(@, BoolV(TRUE))]
    ELSE [c EXCEPT !.m = MapEmplace(@, <<104>>, BoolV(TRUE))]

HandleWrite(i) ==
    /\ Alive
    /\ hnd[i].p # 0
    /\ Len(heap[hnd[i].p].s) < 2
    /\ Len(heap[hnd[i].p].e) + Len(heap[hnd[i].p].m) <= MaxIdx
    /\ heap' = [heap EXCEPT ![hnd[i].p] = Written(@)]
    /\ last' = Obs("HandleWrite", "", NoSlot)
    /\ steps' = steps + 1
    /\ UNCHANGED <<strategy, root, hnd, round>>

\* the texts the machine's callers load: {"x":[]}, ["s" (cut short), -, [7],
\* 7 and "s"
LoadTexts ==
    {<<123, 34, 120, 34, 58, 91, 93, 125>>, <<91, 34, 115, 34>>, <<45>>,
     <<91, 55, 93>>, <<55>>, <<34, 115, 34>>}

\* a load whose set_array would keep the elements of an Array that is there
LoadedKept(d, r, nothrow) ==
    LET old == Abs(heap, Read(heap, root, d))
        v == IF r.set /\ r.v.t = "array" /\ old.t = "array"
             THEN ArrayT(old.e \o r.v.e) ELSE r.v
    IN /\ r.set => Fits(heap, root, d, v)
       /\ heap' = IF r.set THEN StoreTree(heap, root, d, v).h ELSE heap
       /\ root' = IF r.set THEN StoreTree(heap, root, d, v).rt ELSE root
       /\ last' = [op |-> "Load", err |-> IF r.ok \/ nothrow THEN "" ELSE "ParseError",
                   ret |-> NoSlot, ok |-> r.ok]
       /\ steps' = steps + 1
       /\ UNCHANGED <<strategy, hnd, round>>

\* what a load that returned r leaves in slot d and tells its caller
Loaded(d, r, nothrow) ==
    /\ r.set => Fits(heap, root, d, r.v)
    /\ heap' = IF r.set THEN StoreTree(heap, root, d, r.v).h ELSE heap
    /\ root' = IF r.set THEN StoreTree(heap, root, d, r.v).rt ELSE root
    /\ last' = [op |-> "Load", err |-> IF r.ok \/ nothrow THEN "" ELSE "ParseError",
                ret |-> NoSlot, ok |-> r.ok]
    /\ steps' = steps + 1
    /\ UNCHANGED <<strategy, hnd, round>>

\* loads(tx, nothrow) on the Value in slot d
LoadInto(d, tx, nothrow) ==
    /\ Alive
    /\ Loaded(d, Load(CString(tx), Abs(heap, Read(heap, root, d))), nothrow)

Next ==
    \/ \E d \in Held, t \in Literals : Construct(d, t)
    \/ \E d \in Held, k \in Composite : SetKind(d, k)
    \/ \E d, s \in Held : CopyAssign(d, s)
    \/ \E d, s \in Held : MoveAssign(d, s)
    \/ \E d \in Held, k \in Kinds : Get(d, k)
    \/ \E d \in Held : GetStringAppend(d)
    \/ \E d \in Held, idx \in 0 .. MaxIdx : IndexMut(d, idx)
    \/ \E d \in Held, idx \in 0 .. MaxIdx : IndexConst(d, idx)
    \/ \E d \in Held, key \in Keys : KeyMut(d, key)
    \/ \E d \in Held, key \in Keys : KeyConst(d, key)
    \/ \E d \in Held, k \in Composite, i \in Handles : GetMoved(d, k, i)
    \/ \E d \in Held, k \in Composite, i \in Handles : GetShared(d, k, i)
    \/ \E i \in Handles : HandleDrop(i)
    \/ \E i \in Handles : HandleWrite(i)
    \/ \E d \in Held, tx \in LoadTexts, nt \in BOOLEAN : LoadInto(d, tx, nt)

Spec == Init /\ [][Next]_vars

(* --------------------------- dump / load round ------------------------- *)

\* the strings a document is built from: empty, "s", every single byte, a
\* tab with a quote and byte 1, and the two bytes of an e-acute in UTF-8
Strs == {<<>>, Lit, <<9, 34, 1>>, <<195, 169>>} \cup {<<c>> : c \in 0 .. 255}

\* the numbers a document is built from: 0, 7, 9, -12, 1000, INT_MAX,
\* -INT_MAX, 0.5, -0.25, 0.1 (the double 1.0 / 10), NaN, +Infinity, -Infinity
Nums ==
    {NumT(0, 0), NumT(7, 0), NumT(9, 0), NumT(-12, 0), NumT(1000, 0), NumT(INT_MAX, 0),
     NumT(-INT_MAX, 0), NumT(5, 1), NumT(-25, 2), NumOf(TenthOf(OfInt(1))),
     NonFiniteT("nan"), NonFiniteT("pinf"), NonFiniteT("ninf")}

\* the keys of the one-member objects among the documents
KeyStrs == {<<>>, <<9, 34, 1>>, <<92>>, <<8>>, <<31>>, <<127>>, <<195>>}

\* the documents built by the constructors
Docs ==
    {NullT, BoolT(TRUE), BoolT(FALSE), EmptyT("array"), EmptyT("object")}
      \cup Nums \cup {StringT(str) : str \in Strs}
      \cup {ObjectT(<<[k |-> str, v |-> NullT]>>) : str \in KeyStrs}
      \cup {ArrayT(<<NumT(7, 0), ArrayT(<<StringT(Lit), NullT>>)>>),
            ObjectT(<<[k |-> <<120>>, v |-> ArrayT(<<BoolT(TRUE)>>)],
                      [k |-> <<121>>, v |-> ObjectT(<<[k |-> <<>>, v |-> NumT(5, 1)]>>)]>>)}

\* [false,123.45e6,true,{"2":null}, -8]
MainText ==
    <<91, 102, 97, 108, 115, 101, 44, 49, 50, 51, 46, 52, 53, 101, 54, 44, 116, 114,
      117, 101, 44, 123, 34, 50, 34, 58, 110, 117, 108, 108, 125, 44, 32, 45, 56, 93>>

\* the texts a document is parsed from: [1, "\u0041"] and {"x":[]} and "\q"
\* and 1 x and tru and [1,2 and {"b":1,"a":2} and main1's
\* [false,123.45e6,true,{"2":null}, -8]
ParseTexts ==
    {<<123, 34, 98, 34, 58, 49, 44, 34, 97, 34, 58, 50, 125>>,
     MainText,
     <<91, 49, 44, 32, 34, 92, 117, 48, 48, 52, 49, 34, 93>>,
     <<123, 34, 120, 34, 58, 91, 93, 125>>,
     <<34, 92, 113, 34>>,
     <<49, 32, 120>>,
     <<116, 114, 117>>,
     <<91, 49, 44, 50>>}

\* the dump_options a document is written with
Layouts ==
    {DefaultOptions,
     [DefaultOptions EXCEPT !.ensure_ascii = TRUE],
     [DefaultOptions EXCEPT !.indent = 0],
     [DefaultOptions EXCEPT !.indent = 2],
     [DefaultOptions EXCEPT !.indent = 1, !.indent_char = 9],
     [DefaultOptions EXCEPT !.indent = 32, !.indent_char = 46]}

InitRT ==
    /\ strategy = "Unique"
    /\ heap = [a \in Addr |-> FreeCell]
    /\ root = [x \in Roots |-> NullV]
    /\ hnd = [i \in Handles |-> NoHandle]
    /\ last = Obs("init", "", NoSlot)
    /\ steps = 0
    /\ doc = NullT
    /\ options \in Layouts
    /\ text = <<>>
    /\ back = NoLoad
    /\ pc = "idle"

\* the document is built by the converting constructors
BuildDoc(t) ==
    /\ pc = "idle"
    /\ doc' = t
    /\ pc' = "built"
    /\ UNCHANGED <<machine, options, text, back>>

\* the state once the document was parsed from tx with result r
Parsed(tx, r) ==
    /\ text' = tx
    /\ back' = r
    /\ doc' = r.v
    /\ pc' = IF r.ok THEN "built" ELSE "failed"
    /\ UNCHANGED <<machine, options>>

\* the document is what loads(tx) left in a default-constructed Value
ParseDoc(tx) == pc = "idle" /\ Parsed(tx, Load(CString(tx), NullT))

\* text = doc.dumps(options)
DumpDoc ==
    /\ pc = "built"
    /\ text' = Dumps(doc, options)
    /\ pc' = "dumped"
    /\ UNCHANGED <<machine, doc, options, back>>

\* a default-constructed Value loads the dumped text, nothrow
LoadBack ==
    /\ pc = "dumped"
    /\ back' = Load(CString(text), NullT)
    /\ pc' = "loaded"
    /\ UNCHANGED <<machine, doc, options, text>>

NextRT ==
    \/ \E t \in Docs : BuildDoc(t)
    \/ \E tx \in ParseTexts : ParseDoc(tx)
    \/ DumpDoc
    \/ LoadBack

SpecRT == InitRT /\ [][NextRT]_vars

(* ------------------------------- loads --------------------------------- *)

\* well-formed documents whose top-level value is an array, an object, a
\* string or a literal, each ending at its closing character:
\*   [1,2,3]   true   false   null   "a\"bA"   [[],{}]
\*   {"a": [true, {"b": "c"}], "d": null}   and, after a blank,  [ 1 , "x" ]
ValidDocs ==
    {<<91, 49, 44, 50, 44, 51, 93>>,
     <<116, 114, 117, 101>>,
     <<102, 97, 108, 115, 101>>,
     <<110, 117, 108, 108>>,
     <<34, 97, 92, 34, 98, 92, 117, 48, 48, 52, 49, 34>>,
     <<91, 91, 93, 44, 123, 125, 93>>,
     <<123, 34, 97, 34, 58, 32, 91, 116, 114, 117, 101, 44, 32, 123, 34, 98, 34, 58, 32, 34, 99, 34, 125, 93, 44, 32, 34, 100, 34, 58, 32, 110, 117, 108, 108, 125>>,
     <<32, 91, 32, 49, 32, 44, 32, 34, 120, 34, 32, 93>>}

\* the proper prefixes of a text
Prefixes(tx) == {SubSeq(tx, 1, k) : k \in 0 .. Len(tx) - 1}

\* the well-formed documents cut short, and the blank text
Truncated == UNION {Prefixes(d) : d \in ValidDocs} \cup {<<32, 10>>}

\* well-formed top-level numbers: 1   -12   0.5   1e2
NumberDocs ==
    {<<49>>,
     <<45, 49, 50>>,
     <<48, 46, 53>>,
     <<49, 101, 50>>}

\* what follows a complete value in the texts below: x   ]   ,   1   "
Garbage == {<<120>>, <<93>>, <<44>>, <<49>>, <<34>>}

\* blanks before the garbage: none, a space
Gaps == {<<>>, <<32>>}

\* a complete value, then something that is no whitespace; a digit right
\* after a number would be one more of its digits, except in 01
Trailing ==
    {d \o g \o x : d \in ValidDocs, g \in Gaps, x \in Garbage}
      \cup {d \o g \o x : d \in NumberDocs, g \in Gaps, x \in Garbage \ {<<49>>}}
      \cup {d \o <<32, 49>> : d \in NumberDocs}
      \cup {<<48, 49>>}

\* a complete value between blanks
Padded == {<<32>> \o d \o <<32, 10>> : d \in ValidDocs \cup NumberDocs}

\* objects that give a key twice: {"a":1,"a":2}  {"a":1,"b":3,"a":2}
\*   {"k":[1],"k":{"k":null,"k":true}}
Repeats ==
    {<<123, 34, 97, 34, 58, 49, 44, 34, 97, 34, 58, 50, 125>>,
     <<123, 34, 97, 34, 58, 49, 44, 34, 98, 34, 58, 51, 44, 34, 97, 34, 58, 50, 125>>,
     <<123, 34, 107, 34, 58, 91, 49, 93, 44, 34, 107, 34, 58, 123, 34, 107, 34, 58, 110, 117, 108, 108, 44, 34, 107, 34, 58, 116, 114, 117, 101, 125, 125>>}

\* hex digits tried at each place of a \uXXXX escape: 0 8 d f F, then
\* 0 7 8 F, then 0 4 8 e f, then 0 1 9 a F
HexPlaces ==
    <<{48, 56, 100, 102, 70}, {48, 55, 56, 70}, {48, 52, 56, 101, 102},
      {48, 49, 57, 97, 70}>>

\* the string texts "\uXXXX"
Escapes ==
    {<<34, 92, 117, h1, h2, h3, h4, 34>> :
        h1 \in HexPlaces[1], h2 \in HexPlaces[2], h3 \in HexPlaces[3], h4 \in HexPlaces[4]}

\* escapes with fewer than four hex digits: "\u"  "\u4"  "\u41"  "\u004"
\*   "\u00g1"  "\u004
ShortEscapes ==
    {<<34, 92, 117, 34>>,
     <<34, 92, 117, 52, 34>>,
     <<34, 92, 117, 52, 49, 34>>,
     <<34, 92, 117, 48, 48, 52, 34>>,
     <<34, 92, 117, 48, 48, 103, 49, 34>>,
     <<34, 92, 117, 48, 48, 52>>}

\* strings, as values and as a key, in which a backslash stands before a
\* character that starts no escape:  "\q"  "a\x"  "\ "  "\0"  "\U0041"  "\'"
\*   ["\a"]  {"\q":1}
BadEscapes ==
    {<<34, 92, 113, 34>>,
     <<34, 97, 92, 120, 34>>,
     <<34, 92, 32, 34>>,
     <<34, 92, 48, 34>>,
     <<34, 92, 85, 48, 48, 52, 49, 34>>,
     <<34, 92, 39, 34>>,
     <<91, 34, 92, 97, 34, 93>>,
     <<123, 34, 92, 113, 34, 58, 49, 125>>}

\* texts that start with '-' or a digit:  0  -0  01  -  -x  1.  1.5  1.e5  1e
\*   1e+  1e+5  1E-2x  "12 ,"  -12]  007  1e5e  -.5  1.5.2  "12  x"  "1e2 "
\*   "-7 x"  0x  0.e1  00  1E2  -0.5e1,  120  "-305 "  1e-  2E+x  9
\*   "-9007199254740992 "  9007199254740993  12345678901234567891
NumberTexts ==
    {<<48>>,
     <<45, 48>>,
     <<48, 49>>,
     <<45>>,
     <<45, 120>>,
     <<49, 46>>,
     <<49, 46, 53>>,
     <<49, 46, 101, 53>>,
     <<49, 101>>,
     <<49, 101, 43>>,
     <<49, 101, 43, 53>>,
     <<49, 69, 45, 50, 120>>,
     <<49, 50, 32, 44>>,
     <<45, 49, 50, 93>>,
     <<48, 48, 55>>,
     <<49, 101, 53, 101>>,
     <<45, 46, 53>>,
     <<49, 46, 53, 46, 50>>,
     <<49, 50, 32, 32, 120>>,
     <<49, 101, 50, 32>>,
     <<45, 55, 32, 120>>,
     <<48, 120>>,
     <<48, 46, 101, 49>>,
     <<48, 48>>,
     <<49, 69, 50>>,
     <<45, 48, 46, 53, 101, 49, 44>>,
     <<49, 50, 48>>,
     <<45, 51, 48, 53, 32>>,
     <<49, 101, 45>>,
     <<50, 69, 43, 120>>,
     <<57>>,
     <<45, 57, 48, 48, 55, 49, 57, 57, 50, 53, 52, 55, 52, 48, 57, 57, 50, 32>>,
     <<57, 48, 48, 55, 49, 57, 57, 50, 53, 52, 55, 52, 48, 57, 57, 51>>,
     <<49, 50, 51, 52, 53, 54, 55, 56, 57, 48, 49, 50, 51, 52, 53, 54, 55, 56, 57, 49>>}

\* the values the container texts are made of:  1  "x"  [true]  null
ValueTexts == {<<49>>, <<34, 120, 34>>, <<91, 116, 114, 117, 101, 93>>, <<110, 117, 108, 108>>}

\* '[' value (',' value)* ']' with up to three values, the comma bare or
\* between spaces, and the empty array with and without a space
ArrayTexts ==
    {<<91>> \o Join(vs, sep) \o <<93>> :
        vs \in UNION {[1 .. n -> ValueTexts] : n \in 0 .. 3},
        sep \in {<<44>>, <<32, 44, 32>>}}
      \cup {<<91, 32, 93>>}

\* the member "k": v, the colon bare or between spaces
Member(k, v, colon) == <<34>> \o k \o <<34>> \o colon \o v

\* '{' string ':' value (',' string ':' value)* '}' with the keys a and b in
\* either order, and the empty object with and without a space
ObjectTexts ==
    {<<123>> \o Join([i \in DOMAIN ks |-> Member(ks[i], vs[i], colon)], <<44>>) \o <<125>> :
        ks \in {<<>>, <<<<97>>>>, <<<<98>>>>, <<<<97>>, <<98>>>>, <<<<98>>, <<97>>>>},
        vs \in [1 .. 2 -> ValueTexts],
        colon \in {<<58>>, <<32, 58, 32>>}}
      \cup {<<123, 32, 125>>}

\* containers with a value, a separator or a key's quote missing:
\*   [1,]   {"a":}   {"a":1,}   [1 2]   {"a" 1}   {a:1}
\*   {"a":1 "b":2}   [,1]   [1,,2]   {,}   {1:2}   [,]
\*   [1;2]   ["x" "y"]   {"a":1,"b"}   {"a":1,b:2}   {"a"}   {"a",1}
\*   {:1}   {"a":1,,"b":2}   [[1,]]   [{"a":}]   {"a":[1,]}   {'a':1}
\*   {"a"::1}   [1,2 3]   {"a":1;"b":2}   {null:1}   {["a"]:1}
BadContainers ==
    {<<91, 49, 44, 93>>,
     <<123, 34, 97, 34, 58, 125>>,
     <<123, 34, 97, 34, 58, 49, 44, 125>>,
     <<91, 49, 32, 50, 93>>,
     <<123, 34, 97, 34, 32, 49, 125>>,
     <<123, 97, 58, 49, 125>>,
     <<123, 34, 97, 34, 58, 49, 32, 34, 98, 34, 58, 50, 125>>,
     <<91, 44, 49, 93>>,
     <<91, 49, 44, 44, 50, 93>>,
     <<123, 44, 125>>,
     <<123, 49, 58, 50, 125>>,
     <<91, 44, 93>>,
     <<91, 49, 59, 50, 93>>,
     <<91, 34, 120, 34, 32, 34, 121, 34, 93>>,
     <<123, 34, 97, 34, 58, 49, 44, 34, 98, 34, 125>>,
     <<123, 34, 97, 34, 58, 49, 44, 98, 58, 50, 125>>,
     <<123, 34, 97, 34, 125>>,
     <<123, 34, 97, 34, 44, 49, 125>>,
     <<123, 58, 49, 125>>,
     <<123, 34, 97, 34, 58, 49, 44, 44, 34, 98, 34, 58, 50, 125>>,
     <<91, 91, 49, 44, 93, 93>>,
     <<91, 123, 34, 97, 34, 58, 125, 93>>,
     <<123, 34, 97, 34, 58, 91, 49, 44, 93, 125>>,
     <<123, 39, 97, 39, 58, 49, 125>>,
     <<123, 34, 97, 34, 58, 58, 49, 125>>,
     <<91, 49, 44, 50, 32, 51, 93>>,
     <<123, 34, 97, 34, 58, 49, 59, 34, 98, 34, 58, 50, 125>>,
     <<123, 110, 117, 108, 108, 58, 49, 125>>,
     <<123, 91, 34, 97, 34, 93, 58, 49, 125>>}

\* texts that hold the byte 0xFF or a terminator before their end:
\*   "\<FF>a"   "\<FF>"   "<FF>"   "\u<FF>041"   [1<FF>2]   <FF>   1<FF>
\*   t<FF>ue   "a<00>b"   [1,<00>2]
SentinelTexts ==
    {<<34, 92, 255, 97, 34>>, <<34, 92, 255, 34>>, <<34, 255, 34>>,
     <<34, 92, 117, 255, 48, 52, 49, 34>>, <<91, 49, 255, 50, 93>>, <<255>>,
     <<49, 255>>, <<116, 255, 117, 101>>, <<34, 97, 0, 98, 34>>,
     <<91, 49, 44, 0, 50, 93>>}

\* the texts loads is called with
Inputs ==
    ValidDocs \cup NumberDocs \cup Truncated \cup Trailing \cup Padded \cup Repeats
      \cup Escapes \cup ShortEscapes \cup BadEscapes \cup NumberTexts
      \cup ArrayTexts \cup ObjectTexts \cup BadContainers \cup SentinelTexts

InitLoads ==
    /\ strategy = "Unique"
    /\ heap = [a \in Addr |-> FreeCell]
    /\ root = [x \in Roots |-> NullV]
    /\ hnd = [i \in Handles |-> NoHandle]
    /\ last = Obs("init", "", NoSlot)
    /\ steps = 0
    /\ doc = NullT
    /\ options = DefaultOptions
    /\ text = <<>>
    /\ back = NoLoad
    /\ pc = "idle"

\* what _load tells its caller once _parse returned r: it throws when the
\* parse failed and nothrow is false, and returns res otherwise
Answer(op, r, nothrow) ==
    [op |-> op, err |-> IF r.ok \/ nothrow THEN "" ELSE "ParseError",
     ret |-> NoSlot, ok |-> r.ok]

\* the caller's state after the load op of the text tx found r
Answered(op, tx, r, nothrow) ==
    /\ text' = tx
    /\ back' = r
    /\ doc' = r.v
    /\ last' = Answer(op, r, nothrow)
    /\ pc' = IF nothrow THEN "nothrow" ELSE "throwing"
    /\ UNCHANGED <<strategy, heap, root, hnd, steps, options>>

\* json j; j.loads(tx, nothrow): the reader of a null-terminated string
Loads(tx, nothrow) ==
    /\ pc = "idle"
    /\ Answered("loads", tx, Load(CString(tx), NullT), nothrow)

\* json j; j.load(first, last, nothrow) with [first, last) the bytes tx
LoadRange(tx, nothrow) ==
    /\ pc = "idle"
    /\ Answered("load(first, last)", tx, Load(tx, NullT), nothrow)

\* json j; j.load(is, nothrow) with is a std::istream over the bytes tx:
\* get() gives every byte, a 0 included, and EOF from the end on
LoadStream(tx, nothrow) ==
    /\ pc = "idle"
    /\ Answered("load(istream)", tx, Load(tx, NullT), nothrow)

\* the variant of src/unnamed/part_000: the pending high surrogate last_cp is
\* stored before the next thing appended, when there is one
Flushed(out, last_cp) == IF last_cp # 0 THEN out \o CStr(StoreUtf8(last_cp)) ELSE out

RECURSIVE ParseStringV(_, _, _, _)

\* case 'u' of the variant's _parse_string: a high surrogate is kept in
\* last_cp, a low surrogate after one is combined with it, any other code
\* point is stored after the pending one
UnicodeEscapeV(tx, cp, p6, out, last_cp) ==
    IF BadCodePoint(cp) THEN Res(0, p6, out)
    ELSE IF cp >= 55296 /\ cp < 56320 THEN ParseStringV(tx, p6, out, cp)
    ELSE IF last_cp # 0 /\ cp >= 56320 /\ cp < 57344
    THEN ParseStringV(tx, p6,
           out \o CStr(StoreUtf8(((last_cp % 1024) * 1024 + (cp % 1024)) + 65536)), 0)
    ELSE ParseStringV(tx, p6, Flushed(out, last_cp) \o CStr(StoreUtf8(cp)), 0)

\* the variant's _parse_string: a character or a simple escape is appended
\* first and the pending surrogate after it; the closing quote returns with
\* last_cp as it is
ParseStringV(tx, p, out, last_cp) ==
    LET ch == RdCh(tx, p)
        p1 == RdPos(tx, p)
    IN IF ch = 34 THEN Res(NonspaceCh(tx, p1), NonspacePos(tx, p1), out)
       ELSE IF ch = EOFc THEN Res(0, p1, out)
       ELSE IF ch # 92 THEN ParseStringV(tx, p1, Flushed(Append(out, ch), last_cp), 0)
       ELSE IF RdCh(tx, p1) = 117
       THEN UnicodeEscapeV(tx, ReadHex4(tx, RdPos(tx, p1)), RdPosN(tx, p1, 5), out, last_cp)
       ELSE ParseStringV(tx, RdPos(tx, p1),
                         Flushed(out \o Unescaped(RdCh(tx, p1)), last_cp), 0)

\* what a string is made of: the escapes \ud83d (a high surrogate), \ude00
\* (a low surrogate) and \u0041, the character x and the escape \n
StringUnits ==
    {<<92, 117, 100, 56, 51, 100>>, <<92, 117, 100, 101, 48, 48>>,
     <<92, 117, 48, 48, 52, 49>>, <<120>>, <<92, 110>>}

\* the strings of one to three units, in quotes
SurrogateTexts ==
    {<<34>> \o Join(us, <<>>) \o <<34>> :
        us \in UNION {[1 .. n -> StringUnits] : n \in 1 .. 3}}

\* json j; j.loads(tx, nothrow) with the json of src/unnamed/part_000, on a
\* text that starts with a quote: _load, _parse's case '"', _parse_string
VariantLoads(tx, nothrow) ==
    /\ pc = "idle"
    /\ NonspaceCh(CString(tx), 1) = 34
    /\ LET r == LoadResult(Filled("string", ParseStringV(CString(tx),
                                        NonspacePos(CString(tx), 1), <<>>, 0)), NullT)
       IN /\ text' = tx
          /\ back' = r
          /\ doc' = r.v
          /\ last' = Answer("loads", r, nothrow)
    /\ pc' = "variant"
    /\ UNCHANGED <<strategy, heap, root, hnd, steps, options>>

NextLoads ==
    \/ \E tx \in Inputs, nothrow \in BOOLEAN : Loads(tx, nothrow)
    \/ \E tx \in Inputs, nothrow \in BOOLEAN : LoadRange(tx, nothrow)
    \/ \E tx \in Inputs, nothrow \in BOOLEAN : LoadStream(tx, nothrow)
    \/ \E tx \in SurrogateTexts, nothrow \in BOOLEAN : VariantLoads(tx, nothrow)

SpecLoads == InitLoads /\ [][NextLoads]_vars

(* ------------------------------- claims -------------------------------- *)

\* the tree of the Value in slot s
TreeAt(h, rt, s) == Abs(h, Read(h, rt, s))

\* the Value in slot s is a tree: no payload below it holds itself, as one
\* does after a move of a Value into its own payload
IsTree(h, rt, s) == ~Endless(TreeAt(h, rt, s))

\* the payloads of the Value in slot s, at every depth
CellsAt(h, rt, s) == Reach(h, Read(h, rt, s))

\* slots d and s hold two Values, neither stored inside the other
Apart(h, rt, d, s) == d # s /\ ~Inside(h, rt, s, d) /\ ~Inside(h, rt, d, s)

\* slot d is neither root y nor a slot of a payload below root y
Outside(h, rt, d, y) == d # RootSlot(y) /\ d.c \notin Reach(h, rt[y])

\* a call that may change the Value in slot d and no other Value's content
Mutates(d) ==
    \/ \E t \in Literals : Construct(d, t)
    \/ \E k \in Composite : SetKind(d, k)
    \/ \E s \in Held : CopyAssign(d, s)
    \/ GetStringAppend(d)
    \/ \E idx \in 0 .. MaxIdx : IndexMut(d, idx)
    \/ \E key \in Keys : KeyMut(d, key)
    \/ \E k \in Composite, i \in Handles : GetMoved(d, k, i)
    \/ last'.op = "Load" /\ \E tx \in LoadTexts, nt \in BOOLEAN : LoadInto(d, tx, nt)

\* a copy d = s leaves in d the tree s held, leaves s as it was, and the two
\* trees have no payload in common
C1Copied ==
    last'.op = "Copy" /\ last'.err = "" =>
        \A d, s \in Held :
            d = last'.ret /\ Apart(heap, root, d, s) /\ CopyAssign(d, s) =>
                /\ TreeAt(heap', root', d) = TreeAt(heap, root, s)
                /\ TreeAt(heap', root', s) = TreeAt(heap, root, s)
                /\ CellsAt(heap', root', d) \cap CellsAt(heap', root', s) = {}

\* a mutation through a slot outside root y leaves the tree of y as it was
C1Independent ==
    last'.op \in {"Construct", "Set", "Copy", "Append", "IndexMut", "KeyMut", "GetMoved",
                  "Load"} =>
        \A d \in Held, y \in Roots :
            Outside(heap, root, d, y) /\ Mutates(d) =>
                Abs(heap', root'[y]) = Abs(heap, root[y])

\* C1: under each storage strategy a copy d = s makes d structurally equal to
\* s and shares no payload with it at any depth, so that a later mutation of
\* one Value (or of a descendant of it) leaves every other Value unchanged
C1_DeepCopy == [][C1Copied /\ C1Independent]_vars

\* b was copied from a = {"x": "s"}, then a["y"] was added: b is as copied
C1_Witness ==
    /\ last.op = "KeyMut"
    /\ last.err = ""
    /\ Abs(heap, root["b"]) = ObjectT(<<[k |-> <<120>>, v |-> StringT(Lit)]>>)
    /\ Abs(heap, root["a"]) = ObjectT(<<[k |-> <<120>>, v |-> StringT(Lit)],
                                        [k |-> <<121>>, v |-> NullT]>>)

\* a Value holding a payload of kind k: the alternative and a non-null handle
HoldsPayload(v, k) == v.t = k /\ v.p # 0

\* C2: under the Unique strategy a move from a source that holds a String,
\* Array or Object gives the destination the source's payload and leaves the
\* source Null (is_null() is true on it)
C2_MoveLeavesNull ==
    [][last'.op = "Move" /\ strategy = "Unique" =>
         \A d, s \in Held :
             /\ d = last'.ret
             /\ \E k \in Composite : HoldsPayload(Read(heap, root, s), k)
             /\ MoveAssign(d, s)
             => /\ TreeAt(heap', root', d) = TreeAt(heap, root, s)
                /\ Read(heap', root', s).t = "null"]_vars

\* C3: after any sequence of public operations every Value whose discriminant
\* is String, Array or Object holds a non-null payload of that kind
C3_PayloadConsistent ==
    \A s \in Held :
        LET v == Read(heap, root, s)
        IN v.t \in Composite => v.p # 0 /\ heap[v.p].k = v.t

\* the elements of the array, or the members of the object, held in slot d
ElemsAt(h, rt, d) == h[Read(h, rt, d).p].e

MembersAt(h, rt, d) == h[Read(h, rt, d).p].m

\* operator[](idx) on the Null or Array Value in slot d, which held the
\* elements e0: afterwards d holds an Array of the elements e0 followed by
\* Nulls up to index idx, and the slot returned is element idx
C4Indexed(d, idx, e0) ==
    /\ last'.err = ""
    /\ HoldsPayload(Read(heap', root', d), "array")
    /\ Len(ElemsAt(heap', root', d)) = IF idx >= Len(e0) THEN idx + 1 ELSE Len(e0)
    /\ \A i \in 1 .. Len(e0) :
           Abs(heap', ElemsAt(heap', root', d)[i]) = Abs(heap, e0[i])
    /\ \A i \in (Len(e0) + 1) .. Len(ElemsAt(heap', root', d)) :
           ElemsAt(heap', root', d)[i] = NullV
    /\ last'.ret = CellSlot(Read(heap', root', d).p, idx + 1)

\* C4: mutating operator[](index) turns a Null Value into an Array of
\* exactly index + 1 Nulls, grows an Array with index >= size to exactly
\* index + 1 elements (new ones Null, old ones unchanged), leaves an Array
\* with index < size as it is, and returns element number index.  Stated for
\* Values that are trees
C4_IndexMut ==
    [][last'.op = "IndexMut" =>
         \A d \in Held, idx \in 0 .. MaxIdx :
             IndexMut(d, idx) /\ IsTree(heap, root, d) =>
                 /\ Read(heap, root, d).t = "null" => C4Indexed(d, idx, <<>>)
                 /\ HoldsPayload(Read(heap, root, d), "array") =>
                        /\ C4Indexed(d, idx, ElemsAt(heap, root, d))
                        /\ Read(heap', root', d) = Read(heap, root, d)]_vars

\* a[1] on a = [["s"]] made a = [["s"], null] and returned its element 1
C4_Witness ==
    /\ last.op = "IndexMut"
    /\ last.err = ""
    /\ Abs(heap, root["a"]) = ArrayT(<<ArrayT(<<StringT(Lit)>>), NullT>>)
    /\ last.ret = CellSlot(root["a"].p, 2)

\* operator[](key) on the Null or Object Value in slot d, which held the
\* members m0: afterwards d holds an Object with the members m0 and, when
\* key was absent, key -> Null; the slot returned is the entry of key
C5Keyed(d, key, m0) ==
    /\ last'.err = ""
    /\ HoldsPayload(Read(heap', root', d), "object")
    /\ LET m1 == MembersAt(heap', root', d)
       IN /\ \A i, j \in 1 .. Len(m1) : m1[i].k = m1[j].k => i = j
          /\ Len(m1) = IF FindKey(m0, key) = 0 THEN Len(m0) + 1 ELSE Len(m0)
          /\ \A i \in 1 .. Len(m0) :
                 \E j \in 1 .. Len(m1) :
                     /\ m1[j].k = m0[i].k
                     /\ Abs(heap', m1[j].v) = Abs(heap, m0[i].v)
          /\ \E j \in 1 .. Len(m1) :
                 /\ m1[j].k = key
                 /\ last'.ret = CellSlot(Read(heap', root', d).p, j)
                 /\ FindKey(m0, key) = 0 => m1[j].v = NullV

\* C5: mutating operator[](key) turns a Null Value into an Object holding
\* exactly key -> Null, inserts key -> Null into an Object without the key and
\* leaves every other entry unchanged, returns the existing entry and changes
\* nothing when the key is present; keys stay unique.  Stated for Values that
\* are trees
C5_KeyMut ==
    [][last'.op = "KeyMut" =>
         \A d \in Held, key \in Keys :
             KeyMut(d, key) /\ IsTree(heap, root, d) =>
                 /\ Read(heap, root, d).t = "null" => C5Keyed(d, key, <<>>)
                 /\ HoldsPayload(Read(heap, root, d), "object") =>
                        /\ C5Keyed(d, key, MembersAt(heap, root, d))
                        /\ Read(heap', root', d) = Read(heap, root, d)]_vars

\* a["x"] on a = {"x": "s"} returned the entry holding "s" and changed nothing
C5_Witness ==
    /\ last.op = "KeyMut"
    /\ last.err = ""
    /\ Abs(heap, root["a"]) = ObjectT(<<[k |-> <<120>>, v |-> StringT(Lit)]>>)
    /\ last.ret = CellSlot(root["a"].p, 1)

\* the failed call raised TypeMismatch and no Value, payload or handle changed
C6Refused ==
    /\ last'.err = "TypeMismatch"
    /\ heap' = heap
    /\ root' = root
    /\ hnd' = hnd

\* C6: get_bool / get_number / get_string / get_array / get_object on a Value
\* of another variant, mutating operator[](index) on a Value neither Null
\* nor Array and mutating operator[](key) on a Value neither Null nor Object
\* fail with TypeMismatch and leave the Value exactly as it was
C6_TypeMismatch ==
    [][last'.op \in {"Get", "Append", "IndexMut", "KeyMut"} =>
         \A d \in Held :
             /\ \A k \in Kinds :
                    Get(d, k) /\ Read(heap, root, d).t # k => C6Refused
             /\ GetStringAppend(d) /\ Read(heap, root, d).t # "string" => C6Refused
             /\ \A idx \in 0 .. MaxIdx :
                    IndexMut(d, idx) /\ Read(heap, root, d).t \notin {"null", "array"}
                    => C6Refused
             /\ \A key \in Keys :
                    KeyMut(d, key) /\ Read(heap, root, d).t \notin {"null", "object"}
                    => C6Refused]_vars

\* a getter or a mutating operator[] was refused on a = {"x": "s"}, which is
\* as it was built
C6_Witness ==
    /\ last.op \in {"Get", "IndexMut"}
    /\ last.err = "TypeMismatch"
    /\ Abs(heap, root["a"]) = ObjectT(<<[k |-> <<120>>, v |-> StringT(Lit)]>>)
    /\ root["b"] = NullV

\* the call changed no Value, payload or handle
C7Untouched == heap' = heap /\ root' = root /\ hnd' = hnd

\* C7: const access never modifies the Value; const operator[](index) on an
\* Array fails with IndexOutOfRange exactly when index >= size, const
\* operator[](key) on an Object fails with KeyNotFound exactly when the key is
\* absent, and either one fails with TypeMismatch on any other variant
C7_ConstAccess ==
    [][last'.op \in {"IndexConst", "KeyConst"} =>
         \A d \in Held :
             /\ \A idx \in 0 .. MaxIdx :
                    IndexConst(d, idx) =>
                        /\ C7Untouched
                        /\ Read(heap, root, d).t # "array" => last'.err = "TypeMismatch"
                        /\ HoldsPayload(Read(heap, root, d), "array") =>
                               IF idx >= Len(ElemsAt(heap, root, d))
                               THEN last'.err = "IndexOutOfRange"
                               ELSE /\ last'.err = ""
                                    /\ last'.ret = CellSlot(Read(heap, root, d).p, idx + 1)
             /\ \A key \in Keys :
                    KeyConst(d, key) =>
                        /\ C7Untouched
                        /\ Read(heap, root, d).t # "object" => last'.err = "TypeMismatch"
                        /\ HoldsPayload(Read(heap, root, d), "object") =>
                               IF \A i \in 1 .. Len(MembersAt(heap, root, d)) :
                                      MembersAt(heap, root, d)[i].k # key
                               THEN last'.err = "KeyNotFound"
                               ELSE /\ last'.err = ""
                                    /\ MembersAt(heap, root, d)[last'.ret.i].k = key
                                    /\ last'.ret.c = Read(heap, root, d).p]_vars

\* const a[1] on a = [["s"]], whose size is 1, failed with IndexOutOfRange
C7_Witness ==
    /\ last.op = "IndexConst"
    /\ last.err = "IndexOutOfRange"
    /\ Abs(heap, root["a"]) = ArrayT(<<ArrayT(<<StringT(Lit)>>)>>)

\* C8: get_moved_string / array / object on a Value holding a payload of the
\* requested kind returns a handle owning that payload, untouched, and resets
\* the Value to Null, so that a repeated call returns an absent handle; on a
\* Value of any other variant, Null included, it returns an absent handle and
\* leaves the Value unchanged.  (The Value is looked at afterwards unless it
\* was stored in the payload the handle variable held before and let go.)
\* Stated for Values that are trees
C8_GetMoved ==
    [][last'.op = "GetMoved" =>
         \A d \in Held, k \in Composite, i \in Handles :
             GetMoved(d, k, i) /\ IsTree(heap, root, d) =>
                 /\ HoldsPayload(Read(heap, root, d), k) =>
                        /\ hnd'[i] = [k |-> k, p |-> Read(heap, root, d).p]
                        /\ heap'[hnd'[i].p].k = k
                        /\ Abs(heap', CompV(k, hnd'[i].p)) = TreeAt(heap, root, d)
                        /\ IsSlot(heap', d) => Read(heap', root', d) = NullV
                 /\ Read(heap, root, d).t # k =>
                        /\ hnd'[i] = [k |-> k, p |-> 0]
                        /\ IsSlot(heap', d) =>
                               /\ Read(heap', root', d) = Read(heap, root, d)
                               /\ TreeAt(heap', root', d) = TreeAt(heap, root, d)]_vars

\* get_moved_object() emptied a = {"x": "s"} into the handle, which owns the
\* object and its string; a is Null
C8_Witness ==
    /\ last.op = "GetMoved"
    /\ hnd[1].k = "object"
    /\ hnd[1].p # 0
    /\ root["a"] = NullV
    /\ Abs(heap, CompV("object", hnd[1].p)) = ObjectT(<<[k |-> <<120>>, v |-> StringT(Lit)]>>)

\* the owners of payload c: the Values holding its handle, wherever they are
\* stored, and the handle variables
Owners(h, rt, hd, c) ==
    Cardinality({s \in LiveSlots(h) : Read(h, rt, s).p = c})
      + Cardinality({i \in Handles : hd[i].p = c})

\* a payload is alive exactly while it has an owner, and counts its owners
C9Alive(h, rt, hd) ==
    \A c \in Addr :
        IF h[c].k = "free" THEN Owners(h, rt, hd, c) = 0
        ELSE h[c].rc >= 1 /\ h[c].rc = Owners(h, rt, hd, c)

\* get_shared_* on slot d: on a payload of the requested kind the handle is
\* one more owner of that very payload and the Value is as it was, on any other
\* variant the handle is absent
C9Acquired ==
    last'.op = "GetShared" =>
        \A d \in Held, k \in Composite, i \in Handles :
            GetShared(d, k, i) =>
                /\ root' = root
                /\ HoldsPayload(Read(heap, root, d), k) =>
                       /\ hnd'[i] = [k |-> k, p |-> Read(heap, root, d).p]
                       /\ heap'[hnd'[i].p].k = k
                       /\ Abs(heap', CompV(k, hnd'[i].p)) = TreeAt(heap, root, d)
                       /\ IsSlot(heap', d) =>
                              /\ Read(heap', root', d) = Read(heap, root, d)
                              /\ heap'[hnd'[i].p].rc >= 2
                /\ Read(heap, root, d).t # k => hnd'[i] = [k |-> k, p |-> 0]

\* slot s names the same Value after the step: the entries of the object it
\* is stored in were not shifted by an insertion before it
Stays(s) == s.c # 0 /\ heap[s.c].k = "object" => heap'[s.c].m[s.i].k = heap[s.c].m[s.i].k

\* a payload written through a handle or through a Value is what every Value
\* and every handle holding it shows afterwards
C9Visible ==
    last'.op \in {"HandleWrite", "Append", "IndexMut", "KeyMut"} /\ last'.err = "" =>
        \A i \in Handles, d \in Held :
            hnd[i].p # 0 /\ Read(heap, root, d).p = hnd[i].p /\ Stays(d) =>
                /\ hnd'[i] = hnd[i]
                /\ Read(heap', root', d) = Read(heap, root, d)
                /\ TreeAt(heap', root', d) = Abs(heap', CompV(hnd[i].k, hnd[i].p))
                /\ HandleWrite(i) =>
                       heap'[Read(heap', root', d).p] = Written(heap[hnd[i].p])

\* C9: under the Shared strategy get_shared_string / array / object on a Value
\* holding that kind returns one more owner of the same payload and leaves the
\* Value unchanged; a mutation through the handle is visible through the Value
\* and vice versa; the payload is alive until the Value and every handle have
\* let go of it; on another variant the handle returned is absent
C9_GetShared ==
    [][strategy = "Shared" =>
         /\ C9Acquired
         /\ C9Visible
         /\ last'.err # "UB" => C9Alive(heap', root', hnd')]_vars

\* the handle got from a = {"x": "s"} was written through: a shows the new
\* entry "h" and the payload has its two owners
C9_Witness ==
    /\ strategy = "Shared"
    /\ last.op = "HandleWrite"
    /\ hnd[1].p # 0
    /\ root["a"].p = hnd[1].p
    /\ heap[hnd[1].p].rc = 2
    /\ Abs(heap, root["a"]) = ObjectT(<<[k |-> <<104>>, v |-> BoolT(TRUE)],
                                        [k |-> <<120>>, v |-> StringT(Lit)]>>)

\* C10: for every tree built by construction or by a successful parse, with
\* strings of any bytes and numbers of any kind, loading the dumped text
\* succeeds and yields a tree equal to the original
C10_RoundTrip == pc = "loaded" => back.ok /\ back.v = doc

\* a loads call has returned or thrown
Called == pc \in {"throwing", "nothrow"}

\* C11: a well-formed document whose top-level value is an array, an object,
\* a string or a literal, cut anywhere before its final closing character
\* (the empty and the blank prefix included), does not load
C11_TruncatedRejected == Called /\ text \in Truncated => ~back.ok /\ ~last.ok

\* loads("[1,2,") was called and failed
C11_Witness ==
    /\ Called
    /\ text = <<91, 49, 44, 50, 44>>
    /\ text \in Truncated
    /\ ~back.ok

\* C12: load succeeds only when the whole input is one JSON value between
\* optional whitespace: a text in which something other than whitespace
\* follows the complete top-level value (1 x, 01, [1,2,3] ], null,) fails
C12_NoPartialSuccess == Called /\ text \in Trailing => ~back.ok

\* the inputs that are no JSON text, and those that are one
Malformed == Truncated \cup Trailing \cup ShortEscapes

WellFormed == ValidDocs \cup NumberDocs \cup Padded \cup Repeats \cup Escapes

\* C13: on malformed input loads raises a parse error when nothrow is false
\* and returns false without raising when nothrow is true; on well-formed
\* input it returns true in both modes
C13_DualMode ==
    Called =>
      /\ text \in Malformed =>
           IF pc = "throwing" THEN last.err = "ParseError"
           ELSE last.err = "" /\ ~last.ok
      /\ text \in WellFormed => last.err = "" /\ last.ok

\* the object a text of Repeats stands for when the last occurrence of a key
\* gives its value: {"a": 2}, {"a": 2, "b": 3}, {"k": {"k": true}}
LastWins(tx) ==
    IF tx = <<123, 34, 97, 34, 58, 49, 44, 34, 97, 34, 58, 50, 125>>
    THEN ObjectT(<<[k |-> <<97>>, v |-> NumT(2, 0)]>>)
    ELSE IF Len(tx) = 19
    THEN ObjectT(<<[k |-> <<97>>, v |-> NumT(2, 0)], [k |-> <<98>>, v |-> NumT(3, 0)]>>)
    ELSE ObjectT(<<[k |-> <<107>>,
                    v |-> ObjectT(<<[k |-> <<107>>, v |-> BoolT(TRUE)]>>)]>>)

\* C14: when an object text gives a key more than once, the parsed Object has
\* one entry for that key, and its value is the one of the last occurrence
C14_LastDuplicateWins ==
    Called /\ text \in Repeats => back.ok /\ back.v = LastWins(text)

\* a dump has returned
Dumped == pc = "dumped"

\* what _dump wrote: the text without the newline that dump appends when
\* indent >= 0
Body == IF options.indent >= 0 THEN SubSeq(text, 1, Len(text) - 1) ELSE text

\* how often the byte c stands in the text tx
Count(tx, c) == Cardinality({i \in DOMAIN tx : tx[i] = c})

\* the Values directly inside a Value
Children(t) ==
    IF t.t = "array" THEN t.e
    ELSE IF t.t = "object" THEN [i \in DOMAIN t.m |-> t.m[i].v]
    ELSE <<>>

\* the line breaks an indented dump of t has: one before every element and
\* one before the closing bracket, for each non-empty array or object
RECURSIVE Breaks(_)
RECURSIVE BreaksIn(_)
Breaks(t) ==
    IF Children(t) = <<>> THEN 0 ELSE Len(Children(t)) + 1 + BreaksIn(Children(t))

BreaksIn(ts) == IF ts = <<>> THEN 0 ELSE Breaks(Head(ts)) + BreaksIn(Tail(ts))

\* the members of the objects of t, at every depth
RECURSIVE Pairs(_)
RECURSIVE PairsIn(_)
Pairs(t) == (IF t.t = "object" THEN Len(t.m) ELSE 0) + PairsIn(Children(t))

PairsIn(ts) == IF ts = <<>> THEN 0 ELSE Pairs(Head(ts)) + PairsIn(Tail(ts))

\* the line breaks of the text tx that the byte c follows
Filled10(tx, c) ==
    Cardinality({i \in DOMAIN tx : tx[i] = 10 /\ i < Len(tx) /\ tx[i + 1] = c})

\* C15: for a non-empty array or object, indent < 0 writes no newline and no
\* fill (the only spaces are the ones after the colons); indent = 0 writes a
\* newline before every element and before the closing bracket, followed by
\* no fill; indent > 0 writes those newlines, followed by fill (all but the
\* one before the outermost closing bracket)
C15_IndentModes ==
    Dumped /\ Children(doc) # <<>> =>
      /\ options.indent < 0 =>
           Count(Body, 10) = 0 /\ Count(Body, options.indent_char) = Pairs(doc)
      /\ options.indent = 0 =>
           Count(Body, 10) = Breaks(doc) /\ Filled10(Body, options.indent_char) = 0
      /\ options.indent > 0 =>
           /\ Count(Body, 10) = Breaks(doc)
           /\ Filled10(Body, options.indent_char) = Breaks(doc) - 1

\* the two-character escapes: the byte and the letter after the backslash
Named == {<<34, 34>>, <<92, 92>>, <<8, 98>>, <<12, 102>>, <<10, 110>>, <<13, 114>>,
          <<9, 116>>}

\* the lowercase hex digits of a byte
HexPair(c) ==
    LET hex == <<48, 49, 50, 51, 52, 53, 54, 55, 56, 57, 97, 98, 99, 100, 101, 102>>
    IN <<hex[(c \div 16) + 1], hex[(c % 16) + 1]>>

\* the unit one byte of a string is written as
EscapeUnit(c, ascii) ==
    IF \E nm \in Named : nm[1] = c
    THEN <<92, (CHOOSE nm \in Named : nm[1] = c)[2]>>
    ELSE IF c = 127 \/ c < 32 \/ (ascii /\ c >= 128) THEN <<92, 117, 48, 48>> \o HexPair(c)
    ELSE <<c>>

\* a string between quotes, unit by unit
RECURSIVE Units(_, _)
Units(str, ascii) ==
    IF str = <<>> THEN <<>> ELSE EscapeUnit(Head(str), ascii) \o Units(Tail(str), ascii)

Quoted(str, ascii) == <<34>> \o Units(str, ascii) \o <<34>>

\* C16: a string, as a value or as an object key, is dumped as a quote, one
\* unit per byte, and a quote: the named escapes for the quote, the backslash
\* and bytes 8, 12, 10, 13, 9; \u007f for byte 0x7f; \u00XX in lowercase hex
\* for every other byte below 0x20, and for every byte from 0x80 up when
\* ensure_ascii is set; the byte itself otherwise
C16_StringEscapes ==
    Dumped =>
      /\ doc.t = "string" => Body = Quoted(doc.s, options.ensure_ascii)
      /\ doc.t = "object" /\ Len(doc.m) = 1 /\ doc.m[1].v = NullT /\ options.indent < 0 =>
           Body = <<123>> \o Quoted(doc.m[1].k, options.ensure_ascii)
                    \o <<58, 32>> \o NullWord \o <<125>>
      /\ doc = StringT(<<9, 34, 1>>) =>
           Body = <<34, 92, 116, 92, 34, 92, 117, 48, 48, 48, 49, 34>>
      /\ doc = StringT(<<195>>) /\ options.ensure_ascii =>
           Body = <<34, 92, 117, 48, 48, 99, 51, 34>>

\* the string of byte 0xC3 was dumped with ensure_ascii
C16_Witness ==
    /\ Dumped
    /\ options.ensure_ascii
    /\ doc = StringT(<<195>>)
    /\ text = <<34, 92, 117, 48, 48, 99, 51, 34>>

\* the number a run of decimal digits stands for
RECURSIVE DecValue(_, _)
DecValue(ds, acc) ==
    IF ds = <<>> THEN acc ELSE DecValue(Tail(ds), acc * 10 + (Head(ds) - 48))

\* tx is the decimal integer n: a '-' when n is negative, then the digits of
\* |n| without a leading zero, and nothing else
IsDecimalOf(tx, n) ==
    LET ds == IF n < 0 /\ tx # <<>> THEN Tail(tx) ELSE tx
    IN /\ ds # <<>>
       /\ n < 0 => Head(tx) = 45
       /\ \A i \in DOMAIN ds : ds[i] \in 48 .. 57
       /\ Len(ds) > 1 => ds[1] # 48
       /\ DecValue(ds, 0) = (IF n < 0 THEN -n ELSE n)

\* C17: a Number that is NaN or an infinity is dumped as null; a finite
\* integral Number of absolute value at most INT_MAX is dumped as its decimal
\* integer digits, with a leading '-' when negative, and no point or exponent
C17_NumberFormat ==
    Dumped /\ doc.t = "number" =>
      /\ doc.nc # "fin" => Body = NullWord
      /\ doc.nc = "fin" /\ IsInt(doc) => IsDecimalOf(Body, IntOf(doc))
      /\ doc = NumT(9, 0) => Body = <<57>>

\* -2147483647 was dumped
C17_Witness ==
    /\ Dumped
    /\ doc = NumT(-INT_MAX, 0)
    /\ text = <<45, 50, 49, 52, 55, 52, 56, 51, 54, 52, 55>>

\* the compact shape of a tree: [e1,e2] and {"k1": v1,"k2": v2}, a scalar as
\* the serializer writes it
RECURSIVE Canon(_, _)
Canon(t, opt) ==
    IF t.t = "array"
    THEN <<91>> \o Join([i \in DOMAIN t.e |-> Canon(t.e[i], opt)], <<44>>) \o <<93>>
    ELSE IF t.t = "object"
    THEN <<123>> \o Join([i \in DOMAIN t.m |->
                            DumpString(t.m[i].k, opt.ensure_ascii) \o <<58, 32>>
                              \o Canon(t.m[i].v, opt)], <<44>>) \o <<125>>
    ELSE DumpT(t, opt, -1)

\* the members of every object of t stand in ascending order of their keys
RECURSIVE KeysAscend(_)
KeysAscend(t) ==
    /\ t.t = "object" =>
         \A i \in 1 .. Len(t.m) - 1 : LexLess(t.m[i].k, t.m[i + 1].k)
    /\ \A i \in DOMAIN Children(t) : KeysAscend(Children(t)[i])

\* [false,123450000,true,{"2": null},-8]
MainDump ==
    <<91, 102, 97, 108, 115, 101, 44, 49, 50, 51, 52, 53, 48, 48, 48, 48, 44, 116,
      114, 117, 101, 44, 123, 34, 50, 34, 58, 32, 110, 117, 108, 108, 125, 44, 45,
      56, 93>>

\* C18: a compact dump writes an empty array or object as [] or {} (in every
\* indent mode), a non-empty array as its elements between brackets with one
\* comma between neighbours, a non-empty object as its members in ascending
\* key order, whatever the order of insertion, each as key, colon, one space,
\* value; main1's text parsed and dumped gives
\* [false,123450000,true,{"2": null},-8]
C18_CompactShape ==
    Dumped =>
      /\ options.indent < 0 => text = Canon(doc, options) /\ KeysAscend(doc)
      /\ doc = EmptyT("array") => Body = <<91, 93>>
      /\ doc = EmptyT("object") => Body = <<123, 125>>
      /\ doc = Load(MainText, NullT).v /\ options.indent < 0 => text = MainDump
      /\ doc = Load(<<123, 34, 98, 34, 58, 49, 44, 34, 97, 34, 58, 50, 125>>, NullT).v
           /\ options.indent < 0 => text = <<123, 34, 97, 34, 58, 32, 50, 44, 34, 98, 34, 58, 32, 49, 125>>

\* main1's text was parsed and dumped compactly
C18_Witness ==
    /\ Dumped
    /\ options = DefaultOptions
    /\ back.ok
    /\ doc = Load(MainText, NullT).v
    /\ text = MainDump

\* a line break and the fill of depth d: d * k copies of indent_char
Break(opt, d) == <<10>> \o [i \in 1 .. d * opt.indent |-> opt.indent_char]

\* the indented shape of a tree whose own bracket stands at depth d: every
\* element on a line of its own at depth d + 1, the closing bracket at depth d
RECURSIVE Pretty(_, _, _)
Pretty(t, opt, d) ==
    IF Children(t) = <<>> THEN DumpT(t, opt, -1)
    ELSE IF t.t = "array"
    THEN <<91>> \o Join([i \in DOMAIN t.e |->
                           Break(opt, d + 1) \o Pretty(t.e[i], opt, d + 1)], <<44>>)
           \o Break(opt, d) \o <<93>>
    ELSE <<123>> \o Join([i \in DOMAIN t.m |->
                            Break(opt, d + 1) \o DumpString(t.m[i].k, opt.ensure_ascii)
                              \o <<58, 32>> \o Pretty(t.m[i].v, opt, d + 1)], <<44>>)
           \o Break(opt, d) \o <<125>>

\* C19: with indent = k > 0 every element at nesting depth d is preceded by a
\* newline and exactly d * k copies of indent_char, and the closing bracket
\* of a container whose elements are at depth d by a newline and (d - 1) * k
\* copies, at every depth, also when d * k reaches the 64 cached characters
C19_IndentDepth == Dumped /\ options.indent > 0 => Body = Pretty(doc, options, 0)

\* the value of a hex digit, in either case
HexDigit(c) ==
    IF c \in 48 .. 57 THEN c - 48 ELSE IF c \in 97 .. 102 THEN c - 87 ELSE c - 55

\* the code point of the text "\uXXXX"
CodePoint(tx) ==
    HexDigit(tx[4]) * 4096 + HexDigit(tx[5]) * 256 + HexDigit(tx[6]) * 16 + HexDigit(tx[7])

\* the UTF-8 encoding of a code point up to 0xFFFF
Utf8(cp) ==
    IF cp < 128 THEN <<cp>>
    ELSE IF cp <= 2047 THEN <<192 + (cp \div 64), 128 + (cp % 64)>>
    ELSE <<224 + (cp \div 4096), 128 + ((cp \div 64) % 64), 128 + (cp % 64)>>

\* C20: every escape \uXXXX in a string, with hex digits of either case and
\* any value from 0x0000 to 0xFFFF, is accepted and appends the UTF-8
\* encoding of that code point (one, two or three bytes); an escape with
\* fewer than four hex digits fails
C20_UnicodeEscape ==
    Called =>
      /\ text \in Escapes => back.ok /\ back.v = StringT(Utf8(CodePoint(text)))
      /\ text \in ShortEscapes => ~back.ok

\* C21: a string, value or object key, in which a backslash is followed by a
\* character other than " \ / b f n r t u does not load
C21_BadEscapeRejected == Called /\ text \in BadEscapes => ~back.ok

\* the automaton of -?(0|[1-9][0-9]*)(\.[0-9]*)?([eE][+-]?[0-9]+)? : the state
\* after the character c in state q
Step(q, c) ==
    IF q \in {"start", "neg"}
    THEN (IF c = 48 THEN "zero" ELSE IF c \in 49 .. 57 THEN "int"
          ELSE IF c = 45 /\ q = "start" THEN "neg" ELSE "dead")
    ELSE IF q \in {"zero", "int", "frac"}
    THEN (IF c \in 48 .. 57 /\ q # "zero" THEN q
          ELSE IF c = 46 /\ q # "frac" THEN "frac"
          ELSE IF c \in {69, 101} THEN "e" ELSE "dead")
    ELSE IF q \in {"e", "sign", "exp"}
    THEN (IF c \in 48 .. 57 THEN "exp"
          ELSE IF c \in {43, 45} /\ q = "e" THEN "sign" ELSE "dead")
    ELSE "dead"

\* the state after the first k characters of tx
RECURSIVE StateAt(_, _)
StateAt(tx, k) == IF k = 0 THEN "start" ELSE Step(StateAt(tx, k - 1), tx[k])

\* the length of the longest prefix of tx the expression matches, 0 if none
MatchLen(tx) ==
    LET acc == {k \in 1 .. Len(tx) : StateAt(tx, k) \in {"zero", "int", "frac", "exp"}}
    IN IF acc = {} THEN 0 ELSE CHOOSE k \in acc : \A j \in acc : j <= k

\* the shapes that fail: '-' without a digit, 'e' or 'E' without its digit
Misshapen(tx) ==
    \/ MatchLen(tx) = 0
    \/ /\ MatchLen(tx) < Len(tx)
       /\ tx[MatchLen(tx) + 1] \in {69, 101}
       /\ StateAt(tx, MatchLen(tx)) # "exp"

\* the number the decimal digits ds denote, in base 10^3
Numeral(ds) ==
    Trim(Listed([j \in 1 .. ((Len(ds) + 2) \div 3) |->
                   Sum([k \in 0 .. (IF 3 * j > Len(ds) THEN Len(ds) + 2 - 3 * j ELSE 2) |->
                          (ds[Len(ds) + 3 - 3 * j - k] - 48) * (10 ^ k)])]))

\* the magnitude of the integer the matched prefix denotes, when it has no
\* fraction or exponent
Denoted(tx) ==
    Numeral(SubSeq(tx, IF tx[1] = 45 THEN 2 ELSE 1, MatchLen(tx)))

\* the Value v is the Number that is the integer of magnitude m, given in
\* base 10^3, negative under ng
IsInteger(v, ng, m) ==
    /\ v.t = "number"
    /\ v.nc = "fin"
    /\ v.sc >= 0
    /\ Mul(Power(2, v.sc, Kilo), Decimal(v.n), Kilo) = m
    /\ m # <<>> => v.ng = ng

\* 2^53, up to which every integer is a double
Contiguous == Decimal(Shl(<<1>>, 53))

\* what _parse_number does with the texts tried; every integer is claimed to
\* be stored as it stands, or with exactOnly those of at most 2^53
NumberGrammar(exactOnly) ==
    Called /\ text \in NumberTexts =>
      LET m == MatchLen(text)
          r == ParseNumber(text, 2, text[1], NullT)
      IN IF Misshapen(text) THEN ~back.ok /\ r.ch = 0
         ELSE /\ back.ok
              /\ r.ch = RdCh(text, SkipSpace(text, m + 1))
              /\ back.pos = RdPos(text, SkipSpace(text, m + 1))
              /\ (/\ StateAt(text, m) \in {"zero", "int"}
                  /\ exactOnly => ~BigLess(Contiguous, Denoted(text)))
                   => IsInteger(back.v, text[1] = 45, Denoted(text))

\* C22 as stated: _parse_number, entered on '-' or a digit, consumes the
\* longest prefix matching -?(0|[1-9][0-9]*)(\.[0-9]*)?([eE][+-]?[0-9]+)? and
\* returns the first character after it, whitespace skipped; it fails when
\* '-' or the exponent mark (with its optional sign) is not followed by a
\* digit; a leading 0 ends the integer part; without fraction and exponent
\* the Number is the integer the digits denote, negated after '-'
C22_NumberGrammar == NumberGrammar(FALSE)

\* C22, amended: the same, the Number being the integer the digits denote
\* when that integer is at most 2^53 in magnitude; a longer run of digits is
\* stored as a double near it, each step num * 10 + digit being rounded
C22_NumberGrammarExact == NumberGrammar(TRUE)

\* loads("-9007199254740992 ") read -2^53 as it stands and came back at the
\* end of the text
C22_Witness ==
    /\ Called
    /\ text = <<45, 57, 48, 48, 55, 49, 57, 57, 50, 53, 52, 55, 52, 48, 57, 57, 50, 32>>
    /\ back.ok
    /\ IsInteger(back.v, TRUE, Contiguous)
    /\ back.pos = 19

\* the Value a text of ValueTexts denotes
ValueTree(v) ==
    IF v = <<49>> THEN NumT(1, 0)
    ELSE IF v = <<34, 120, 34>> THEN StringT(<<120>>)
    ELSE IF v = <<110, 117, 108, 108>> THEN NullT
    ELSE ArrayT(<<BoolT(TRUE)>>)

\* C23: an array is accepted as '[' ']' or '[' value (',' value)* ']' and an
\* object as '{' '}' or '{' string ':' value (',' string ':' value)* '}'; a
\* value missing after ',' or ':', a missing separator, or a key that does
\* not start with '"' makes the load fail; the parsed Array has one element
\* per value, in input order
C23_ContainerGrammar ==
    Called =>
      /\ text \in BadContainers => ~back.ok
      /\ text \in ArrayTexts \cup ObjectTexts => back.ok /\ back.pos = Len(text) + 1
      /\ text \in {<<91, 32, 93>>, <<91, 93>>} => back.v = ArrayT(<<>>)
      /\ text \in {<<123, 32, 125>>, <<123, 125>>} => back.v = ObjectT(<<>>)
      /\ \A n \in 1 .. 3 : \A vs \in [1 .. n -> ValueTexts] :
           \A sep \in {<<44>>, <<32, 44, 32>>} :
             text = <<91>> \o Join(vs, sep) \o <<93>> =>
               back.v = ArrayT([i \in 1 .. n |-> ValueTree(vs[i])])
      /\ \A v, w \in ValueTexts : \A colon \in {<<58>>, <<32, 58, 32>>} :
           /\ \A k \in {<<97>>, <<98>>} :
                text = <<123>> \o Member(k, v, colon) \o <<125>> =>
                  back.v = ObjectT(<<[k |-> k, v |-> ValueTree(v)]>>)
           /\ text \in {<<123>> \o Member(<<97>>, v, colon) \o <<44>>
                          \o Member(<<98>>, w, colon) \o <<125>>,
                        <<123>> \o Member(<<98>>, w, colon) \o <<44>>
                          \o Member(<<97>>, v, colon) \o <<125>>} =>
                back.v = ObjectT(<<[k |-> <<97>>, v |-> ValueTree(v)],
                                   [k |-> <<98>>, v |-> ValueTree(w)]>>)

\* loads("[1 , \"x\" , [true]]") gave the three elements in input order
C23_Witness ==
    /\ Called
    /\ text = <<91, 49, 32, 44, 32, 34, 120, 34, 32, 44, 32, 91, 116, 114, 117, 101, 93, 93>>
    /\ back.ok
    /\ back.v = ArrayT(<<NumT(1, 0), StringT(<<120>>), ArrayT(<<BoolT(TRUE)>>)>>)

\* the code point a unit of StringUnits stands for
UnitCp(u) ==
    IF Len(u) = 6 THEN CodePoint(<<34>> \o u) ELSE IF u = <<120>> THEN 120 ELSE 10

\* the four UTF-8 bytes of the code point a surrogate pair encodes
Utf8Pair(hi, lo) ==
    LET cp == ((hi % 1024) * 1024 + (lo % 1024)) + 65536
    IN <<240 + (cp \div 262144), 128 + ((cp \div 4096) % 64),
         128 + ((cp \div 64) % 64), 128 + (cp % 64)>>

\* the units' encodings in input order, a high surrogate followed at once by
\* a low surrogate being one code point
RECURSIVE InOrder(_)
InOrder(us) ==
    IF us = <<>> THEN <<>>
    ELSE IF /\ Len(us) >= 2
            /\ UnitCp(us[1]) \in 55296 .. 56319
            /\ UnitCp(us[2]) \in 56320 .. 57343
    THEN Utf8Pair(UnitCp(us[1]), UnitCp(us[2])) \o InOrder(Tail(Tail(us)))
    ELSE Utf8(UnitCp(us[1])) \o InOrder(Tail(us))

\* C24: in the variant of src/unnamed/part_000 the string _parse_string
\* decodes is the in-order concatenation of the UTF-8 encodings of the
\* input's units, a high surrogate immediately followed by a low surrogate
\* forming one four-byte code point and every other escape, a lone high
\* surrogate included, encoded on its own at its position
C24_SurrogateUnits ==
    pc = "variant" =>
      /\ back.ok
      /\ \A n \in 1 .. 3 : \A us \in [1 .. n -> StringUnits] :
           text = <<34>> \o Join(us, <<>>) \o <<34>> => back.v = StringT(InOrder(us))

\* what the reader of the call read from: the null-terminated string at
\* text, or all the bytes of text
Seen == IF last.op = "loads" THEN CString(text) ELSE text

\* C25: end of input is sticky and never overrun: once read() has returned
\* the end-of-input sentinel every later read() returns it too, and the
\* cursor never moves past the terminator.  Only read() moves the cursor, by
\* one character, so the reads of a call were at the cursors below back.pos,
\* in ascending order
C25_StickyEnd ==
    Called =>
      /\ back.pos <= Len(Seen) + 1
      /\ \A p, q \in 1 .. back.pos - 1 :
           p < q /\ RdCh(Seen, p) = EOFc => RdCh(Seen, q) = EOFc

\* C26: a successful load replaces the target completely: for every
\* well-formed text and every prior content of the Value, the Value after
\* the load equals the one the same text gives when loaded into a fresh Null
\* Value
C26_LoadReplaces ==
    [][last'.op = "Load" =>
         \A d \in Held, tx \in LoadTexts, nt \in BOOLEAN :
           LoadInto(d, tx, nt) /\ Load(tx, NullT).ok =>
             /\ last'.ok
             /\ TreeAt(heap', root', d) = Load(tx, NullT).v]_vars

\* [7] was loaded into the element ["s"] of [["s"]]: the outer array holds
\* [7] and nothing of ["s"]
C26_Witness ==
    /\ last.op = "Load"
    /\ last.ok
    /\ steps = 1
    /\ Abs(heap, root["a"]) = ArrayT(<<ArrayT(<<NumT(7, 0)>>)>>)

\* C27: copy-assignment from the Value itself or from a Value stored inside
\* it, at any depth, is safe under every strategy: after d = s the Value d
\* equals the value s had before the assignment, and the payloads of the
\* copy are alive, none of them read from a payload the assignment released.
\* Stated for sources that are trees without a moved-from Value in them
C27_CopyFromInside ==
    [][last'.op = "Copy" =>
         \A d, s \in Held :
           /\ s = d \/ Inside(heap, root, s, d)
           /\ IsTree(heap, root, s)
           /\ ~HasNullPayload(TreeAt(heap, root, s))
           /\ CopyAssign(d, s)
           => /\ last'.err = ""
              /\ TreeAt(heap', root', d) = TreeAt(heap, root, s)
              /\ \A c \in CellsAt(heap', root', d) : heap'[c].k # "free"]_vars

\* a = a[0] on [["s"]]: a holds ["s"], the copy of its own element
C27_Witness ==
    /\ last.op = "Copy"
    /\ last.err = ""
    /\ steps = 1
    /\ root["b"] = NullV
    /\ Abs(heap, root["a"]) = ArrayT(<<StringT(Lit)>>)

====
